---- MODULE Spec2Model ----
(***************************************************************************)
(* firefly-categorizer: the classifier cascade (CategorizerService and its *)
(* three strategies), the auto-approval pipeline and the bulk-training     *)
(* orchestrator (TrainingManager), modelled as one state machine.          *)
(*                                                                         *)
(* Conventions.                                                            *)
(*  - A description is a sequence of one-character strings, so that the    *)
(*    token sort and the similarity ratio of the memory matcher are        *)
(*    computed, not assumed.                                               *)
(*  - A confidence is an integer in thousandths (1.0 is 1000, 0.9 is 900). *)
(*  - A similarity score is the exact fraction num/den on the 0..100       *)
(*    scale of rapidfuzz.                                                  *)
(*  - Python's None is the string None where a name is expected; a         *)
(*    valid_categories argument is [some |-> FALSE, ...] for None and      *)
(*    [some |-> TRUE, cats |-> S] for a list with the members S.           *)
(***************************************************************************)
EXTENDS Integers, Sequences, FiniteSets, TLC

VARIABLES
    llm_enabled,   \* CategorizerService: the LLM strategy is in self.classifiers
    memory,        \* MemoryMatcher.memory: insertion-ordered dict, a sequence of [k, v]
    tfidf,         \* TfidfClassifier: [examples, labels, is_fitted]
    disk,          \* the two persisted files: [memory_json, tfidf_pkl]
    active,        \* TrainingManager.active
    pause_event,   \* TrainingManager.pause_event is set
    seen_ids,      \* TrainingManager.seen_ids
    status,        \* TrainingManager.status (a dict: a record whose fields vary)
    ledger,        \* the ledger's transactions, as the pages it serves
    run,           \* each training run's local variables and position
    clears,        \* how many times seen_ids has been cleared, restarts included (history)
    fc,            \* FireflyClient: its category cache, its lock and the calls in progress
    pg,            \* one yield_transactions() iteration: its locals, requests and yields
    resp           \* the last finished operation and what it returned / did

cascadeVars == <<memory, tfidf, disk>>
managerVars == <<active, pause_event, seen_ids, status>>
constVars == <<llm_enabled, clears>>
vars == <<llm_enabled, memory, tfidf, disk, active, pause_event, seen_ids,
          status, ledger, run, clears, fc, pg, resp>>

None == "None"

-----------------------------------------------------------------------------
(* Bounds and input domains *)

MaxExamples == 2      \* learn calls accepted by the request handlers of SpecCascade
MaxPages == 2         \* pages in a ledger
MaxClears == 1        \* clearings of seen_ids in one behaviour
MaxRestarts == 1      \* restarts of the process that may come after them
MaxTime == 2          \* readings of the monotonic clock: 0..MaxTime
MaxFetches == 2       \* category fetches issued in one behaviour
MaxRefreshes == 1     \* refresh() calls in one behaviour

Cats == {"c1", "c2"}
Ids == {"1", "2"}

dEmpty == <<>>
dA_B == <<"a", " ", "b">>
dB_A == <<"b", " ", "a">>
Descs == {dEmpty, dA_B, dB_A}

-----------------------------------------------------------------------------
(* Sequences helpers *)

Range(s) == {s[i] : i \in 1..Len(s)}


-----------------------------------------------------------------------------
(* rapidfuzz fuzz.token_sort_ratio, as MemoryMatcher.classify uses it *)

Alphabet == <<" ", "a", "b">>
CharOrd(c) == CHOOSE i \in 1..Len(Alphabet) : Alphabet[i] = c

\* str.split(): the maximal runs of non-blank characters
RECURSIVE SplitFrom(_, _, _)
SplitFrom(s, cur, acc) ==
    IF s = <<>> THEN (IF cur = <<>> THEN acc ELSE Append(acc, cur))
    ELSE IF Head(s) = " "
         THEN SplitFrom(Tail(s), <<>>, IF cur = <<>> THEN acc ELSE Append(acc, cur))
         ELSE SplitFrom(Tail(s), Append(cur, Head(s)), acc)
Split(s) == SplitFrom(s, <<>>, <<>>)

\* lexicographic order of two strings
RECURSIVE StrLess(_, _)
StrLess(a, b) ==
    IF b = <<>> THEN FALSE
    ELSE IF a = <<>> THEN TRUE
    ELSE IF Head(a) = Head(b) THEN StrLess(Tail(a), Tail(b))
    ELSE CharOrd(Head(a)) < CharOrd(Head(b))

\* sorted(tokens): insertion sort, stable
RECURSIVE InsertSorted(_, _)
InsertSorted(t, sorted) ==
    IF sorted = <<>> THEN <<t>>
    ELSE IF StrLess(t, Head(sorted)) THEN <<t>> \o sorted
    ELSE <<Head(sorted)>> \o InsertSorted(t, Tail(sorted))
RECURSIVE SortTokens(_)
SortTokens(ts) ==
    IF ts = <<>> THEN <<>> ELSE InsertSorted(Head(ts), SortTokens(Tail(ts)))

\* " ".join(tokens)
RECURSIVE JoinTokens(_)
JoinTokens(ts) ==
    IF ts = <<>> THEN <<>>
    ELSE IF Len(ts) = 1 THEN Head(ts)
    ELSE Head(ts) \o <<" ">> \o JoinTokens(Tail(ts))

TokenSort(s) == JoinTokens(SortTokens(Split(s)))

\* length of the longest common subsequence (the Indel distance is
\* len(a) + len(b) - 2 * LCS)
RECURSIVE LCS(_, _)
LCS(a, b) ==
    IF a = <<>> \/ b = <<>> THEN 0
    ELSE IF Head(a) = Head(b) THEN 1 + LCS(Tail(a), Tail(b))
    ELSE LET x == LCS(Tail(a), b)
             y == LCS(a, Tail(b))
         IN IF x >= y THEN x ELSE y

\* fuzz.ratio: 100 * (1 - indel / (len(a) + len(b))), 100 for two empty strings
Ratio(a, b) ==
    IF Len(a) + Len(b) = 0 THEN [num |-> 100, den |-> 1]
    ELSE [num |-> 200 * LCS(a, b), den |-> Len(a) + Len(b)]

token_sort_ratio(s1, s2) == Ratio(TokenSort(s1), TokenSort(s2))

ScoreGreater(p, q) == p.num * q.den > q.num * p.den
\* (mutant) a score equal to the threshold does not pass
ScoreAbove(p, thr) == p.num > thr * p.den
ScoreAtLeast(p, thr) == p.num >= thr * p.den
\* (mutant) the score is used as it is, on its 0..100 scale
ScoreConfidenceRaw(p) == (1000 * p.num) \div p.den

\* score / 100.0 in thousandths, rounded down
ScoreConfidence(p) == (10 * p.num) \div p.den

\* process.extractOne(query, keys, scorer): the first key with the best score,
\* 0 when there is no key
RECURSIVE BestFrom(_, _, _, _)
BestFrom(query, keys, i, best) ==
    IF i > Len(keys) THEN best
    ELSE IF best = 0 \/ ScoreGreater(token_sort_ratio(query, keys[i]),
                                     token_sort_ratio(query, keys[best]))
         THEN BestFrom(query, keys, i + 1, i)
         ELSE BestFrom(query, keys, i + 1, best)
extractOne(query, keys) == BestFrom(query, keys, 1, 0)

-----------------------------------------------------------------------------
(* MemoryMatcher (classifiers/memory.py) *)

MemoryThreshold == 90     \* memory_threshold, on the 0..100 scale
TfidfThreshold == 500     \* tfidf_threshold 0.5, in thousandths
LlmConfidence == 900      \* the fixed confidence 0.9 of an LLM result

NoRestriction == [some |-> FALSE, cats |-> {}]
Restrictions ==
    {NoRestriction} \cup {[some |-> TRUE, cats |-> S] : S \in {{}, {"c1"}, Cats}}

NoResult == [category |-> None, confidence |-> 0, source |-> None]

MemoryKeys(mem) == [i \in 1..Len(mem) |-> mem[i].k]
MemoryHas(mem, d) == \E i \in 1..Len(mem) : mem[i].k = d
MemoryGet(mem, d) == mem[CHOOSE i \in 1..Len(mem) : mem[i].k = d].v

\* (mutant) every category passes the restriction
is_valid_any(valid_categories, cat_name) == TRUE

\* is_valid(cat_name)
is_valid(valid_categories, cat_name) ==
    IF ~valid_categories.some THEN TRUE ELSE cat_name \in valid_categories.cats

MemoryClassify(mem, d, valid_categories) ==
    IF mem = <<>> THEN NoResult
    ELSE IF MemoryHas(mem, d) /\ is_valid(valid_categories, MemoryGet(mem, d))
    THEN [category |-> MemoryGet(mem, d), confidence |-> 1000, source |-> "memory_exact"]
    ELSE LET best == extractOne(d, MemoryKeys(mem))
             score == token_sort_ratio(d, mem[best].k)
         IN IF best # 0 /\ ScoreAtLeast(score, MemoryThreshold)
                      /\ is_valid(valid_categories, mem[best].v)
            THEN [category |-> mem[best].v, confidence |-> ScoreConfidence(score),
                  source |-> "memory_fuzzy"]
            ELSE NoResult

\* (mutant) a description already stored keeps its category
MemoryLearnKeepFirst(mem, d, c) ==
    IF MemoryHas(mem, d) THEN mem ELSE Append(mem, [k |-> d, v |-> c])

\* self.memory[description] = category.name: an existing key keeps its place
MemoryLearn(mem, d, c) ==
    IF MemoryHas(mem, d)
    THEN [i \in 1..Len(mem) |-> IF mem[i].k = d THEN [k |-> d, v |-> c] ELSE mem[i]]
    ELSE Append(mem, [k |-> d, v |-> c])

-----------------------------------------------------------------------------
(* TfidfClassifier (classifiers/tfidf.py) *)

EmptyTfidf == [examples |-> <<>>, labels |-> <<>>, is_fitted |-> FALSE]

\* What predict_proba gives is not computed here: the arg-max class and its
\* probability are an input of the classify call, pred = [class, conf, raised],
\* with class one of the classes the model was fitted on.
TfidfConfs == {400, 500, 800}
TfidfPreds(tf) ==
    IF ~tf.is_fitted THEN {[class |-> None, conf |-> 0, raised |-> FALSE]}
    ELSE {[class |-> c, conf |-> p, raised |-> FALSE] : c \in Range(tf.labels), p \in TfidfConfs}
         \cup {[class |-> None, conf |-> 0, raised |-> TRUE]}

\* (mutant) a failure of predict_proba is not turned into "no result"
TfidfClassifyRaising(tf, valid_categories, pred) ==
    IF ~tf.is_fitted THEN NoResult
    ELSE IF pred.raised THEN [category |-> None, confidence |-> 0, source |-> "raised"]
    ELSE IF pred.conf >= TfidfThreshold
            /\ (~valid_categories.some \/ pred.class \in valid_categories.cats)
    THEN [category |-> pred.class, confidence |-> pred.conf, source |-> "tfidf"]
    ELSE NoResult

TfidfClassify(tf, valid_categories, pred) ==
    IF ~tf.is_fitted THEN NoResult
    ELSE IF pred.raised THEN NoResult
    ELSE IF pred.conf >= TfidfThreshold
            /\ (~valid_categories.some \/ pred.class \in valid_categories.cats)
    THEN [category |-> pred.class, confidence |-> pred.conf, source |-> "tfidf"]
    ELSE NoResult

\* Pipeline.fit raises ValueError (empty vocabulary) when no example holds a
\* token: the char_wb analyzer yields no n-gram for an empty or blank text.
FitRaises(examples) == \A i \in 1..Len(examples) : Split(examples[i]) = <<>>

\* (mutant) the model is fitted from the first example on
TfidfLearnFitAlways(tf, d, c) ==
    [tfidf |-> [examples |-> Append(tf.examples, d), labels |-> Append(tf.labels, c),
                is_fitted |-> TRUE],
     saved |-> TRUE, raised |-> FALSE]

\* learn: [tfidf: the classifier afterwards, saved: save() ran, raised: fit raised]
TfidfLearn(tf, d, c) ==
    LET ex == Append(tf.examples, d)
        lab == Append(tf.labels, c)
    IN IF Cardinality(Range(lab)) >= 2
       THEN IF FitRaises(ex)
            THEN [tfidf |-> [examples |-> ex, labels |-> lab, is_fitted |-> tf.is_fitted],
                  saved |-> FALSE, raised |-> TRUE]
            ELSE [tfidf |-> [examples |-> ex, labels |-> lab, is_fitted |-> TRUE],
                  saved |-> TRUE, raised |-> FALSE]
       ELSE [tfidf |-> [examples |-> ex, labels |-> lab, is_fitted |-> tf.is_fitted],
             saved |-> FALSE, raised |-> FALSE]

-----------------------------------------------------------------------------
(* LLMClassifier (classifiers/llm.py) *)

\* The text the completion endpoint answers, None for a failed call or an
\* answer without text.
LlmOutputs == Cats \cup {"Uncategorized", None}

LlmClassify(valid_categories, out) ==
    IF out = None THEN NoResult
    ELSE IF valid_categories.some /\ valid_categories.cats # {}
            /\ out \notin valid_categories.cats
    THEN NoResult
    ELSE [category |-> out, confidence |-> LlmConfidence, source |-> "llm"]

-----------------------------------------------------------------------------
(* CategorizerService (manager.py) *)

\* (mutant) the text classifier is consulted before the memory matcher
ClassifiersTfidfFirst(llm) ==
    IF llm THEN <<"tfidf", "memory", "llm">> ELSE <<"tfidf", "memory">>

\* self.classifiers after __init__
Classifiers(llm) == IF llm THEN <<"memory", "tfidf", "llm">> ELSE <<"memory", "tfidf">>

Classify(name, mem, tf, d, valid_categories, pred, out) ==
    CASE name = "memory" -> MemoryClassify(mem, d, valid_categories)
      [] name = "tfidf" -> TfidfClassify(tf, valid_categories, pred)
      [] name = "llm" -> LlmClassify(valid_categories, out)

\* categorize: the loop over self.classifiers from position i on;
\* consulted lists the strategies whose classify was called
RECURSIVE CategorizeFrom(_, _, _, _, _, _, _, _, _)
CategorizeFrom(cls, i, consulted, mem, tf, d, valid_categories, pred, out) ==
    IF i > Len(cls) THEN [result |-> NoResult, consulted |-> consulted]
    ELSE LET result == Classify(cls[i], mem, tf, d, valid_categories, pred, out)
         IN IF result # NoResult
            THEN [result |-> result, consulted |-> Append(consulted, cls[i])]
            ELSE CategorizeFrom(cls, i + 1, Append(consulted, cls[i]), mem, tf, d,
                                valid_categories, pred, out)

categorize(cls, mem, tf, d, valid_categories, pred, out) ==
    CategorizeFrom(cls, 1, <<>>, mem, tf, d, valid_categories, pred, out)

OkFile(data) == [state |-> "ok", data |-> data]
AbsentFile == [state |-> "absent", data |-> <<>>]

\* learn: memory.learn (with its save), then tfidf.learn (with its save);
\* raised when tfidf.learn raised, after the memory was taught and saved
ServiceLearn(mem, tf, dsk, d, c) ==
    LET m == MemoryLearn(mem, d, c)
        t == TfidfLearn(tf, d, c)
        d1 == [dsk EXCEPT !.memory_json = OkFile(m)]
    IN [memory |-> m, tfidf |-> t.tfidf,
        disk |-> IF t.saved
                 THEN [d1 EXCEPT !.tfidf_pkl =
                           OkFile(<<t.tfidf.examples, t.tfidf.labels>>)]
                 ELSE d1,
        raised |-> t.raised]

\* What a file can be found to hold when it is not what save() wrote:
\* "truncated" is content the decoder rejects as such (json.JSONDecodeError;
\* pickle.UnpicklingError, EOFError), "foreign" is content it rejects with
\* another exception: a memory file that is not UTF-8 (UnicodeDecodeError), a
\* pickle of something that is not a dict (AttributeError at data.get).
DamagedStates == {"truncated", "foreign"}
DamagedFile(state) == [state |-> state, data |-> <<>>]

\* load raises: the exception is none of those its except clause names
MemoryLoadRaises(file) == file.state = "foreign"
TfidfLoadRaises(file) == file.state = "foreign"

\* MemoryMatcher.load: json.load of what json.dump wrote, a dict of strings in
\* its order; no file, or one json.load cannot decode, leaves the dict empty
MemoryLoad(file) == IF file.state = "ok" THEN file.data ELSE <<>>

\* TfidfClassifier.load: the pickled examples and labels, fitted when there
\* is an example; no file leaves the classifier untrained
TfidfLoad(file) ==
    IF file.state = "ok"
    THEN [examples |-> file.data[1], labels |-> file.data[2],
          is_fitted |-> file.data[1] # <<>>]
    ELSE EmptyTfidf

\* (mutant) the strategies are emptied and their files are left as they were
ServiceClearNoSave(dsk) == [memory |-> <<>>, tfidf |-> EmptyTfidf, disk |-> dsk]

\* clear_models: memory.clear() and tfidf.clear(), each with its save
ServiceClear(dsk) ==
    [memory |-> <<>>, tfidf |-> EmptyTfidf,
     disk |-> [memory_json |-> OkFile(<<>>), tfidf_pkl |-> OkFile(<<<<>>, <<>>>>)]]

-----------------------------------------------------------------------------
(* Tags (domain/tags.py) and CategorizationPipeline (services/categorization.py) *)

\* (mutant) the new tags come first
merge_tags_new_first(existing_tags, new_tags) ==
    LET RECURSIVE Into(_, _)
        Into(merged, tags) ==
            IF tags = <<>> THEN merged
            ELSE IF Head(tags) # "" /\ Head(tags) \notin {merged[i] : i \in 1..Len(merged)}
                 THEN Into(Append(merged, Head(tags)), Tail(tags))
                 ELSE Into(merged, Tail(tags))
    IN Into(Into(<<>>, new_tags), existing_tags)

\* merge_tags: the non-empty tags of existing_tags, then of new_tags, each once
RECURSIVE MergeInto(_, _)
MergeInto(merged, tags) ==
    IF tags = <<>> THEN merged
    ELSE IF Head(tags) # "" /\ Head(tags) \notin Range(merged)
         THEN MergeInto(Append(merged, Head(tags)), Tail(tags))
         ELSE MergeInto(merged, Tail(tags))
merge_tags(existing_tags, new_tags) == MergeInto(MergeInto(<<>>, existing_tags), new_tags)

NoTags == [some |-> FALSE, tags |-> <<>>]
SomeTags(tags) == [some |-> TRUE, tags |-> tags]

\* AUTO_APPROVE_THRESHOLD in thousandths, AUTO_APPROVE_TAGS, a snapshot's tags
Thresholds == {-500, 0, 900, 1000}
AutoTagChoices == {<<>>, <<"auto">>}
ExistingTagChoices == {<<>>, <<"t1", "auto">>}

\* (mutant) a confidence equal to the threshold is refused
auto_approval_reason_strict(threshold, prediction) ==
    IF threshold <= 0 THEN "disabled"
    ELSE IF prediction.confidence <= threshold THEN "low_confidence"
    ELSE None

\* auto_approval_reason: the reason of a refusal, None when eligible
auto_approval_reason(threshold, prediction) ==
    IF threshold <= 0 THEN "disabled"
    ELSE IF prediction.confidence < threshold THEN "low_confidence"
    ELSE None

\* FireflyClient.update_transaction: TRUE iff the ledger accepted the write;
\* http_ok is the outcome of the PUT (missing credentials count as a failure)
update_transaction(http_ok) == http_ok

\* (mutant) the cascade is taught whatever the ledger answered
apply_auto_approval_eager(mem, tf, dsk, transaction_id, d, prediction, existing_tags, include_existing_when_no_auto, auto_tags, http_ok) ==
    LET learnt == ServiceLearn(mem, tf, dsk, d, prediction.category)
    IN [success |-> update_transaction(http_ok),
        writes |-> <<[transaction_id |-> transaction_id,
                      category_name |-> prediction.category,
                      tags |-> NoTags, ok |-> http_ok]>>,
        learns |-> IF update_transaction(http_ok)
                   THEN <<[d |-> d, c |-> prediction.category]>> ELSE <<>>,
        memory |-> learnt.memory, tfidf |-> learnt.tfidf, disk |-> learnt.disk,
        raised |-> learnt.raised]

\* (mutant) the approved category is written to the ledger and not taught
apply_auto_approval_forgetful(mem, tf, dsk, transaction_id, d, prediction, existing_tags, include_existing_when_no_auto, auto_tags, http_ok) ==
    [success |-> update_transaction(http_ok),
     writes |-> <<[transaction_id |-> transaction_id,
                   category_name |-> prediction.category,
                   tags |-> NoTags, ok |-> http_ok]>>,
     learns |-> <<>>,
     memory |-> mem, tfidf |-> tf, disk |-> dsk, raised |-> FALSE]

\* apply_auto_approval on the cascade state (mem, tf, dsk)
apply_auto_approval(mem, tf, dsk, transaction_id, d, prediction, existing_tags, include_existing_when_no_auto, auto_tags, http_ok) ==
    LET tags_payload ==
            IF auto_tags # <<>> THEN SomeTags(merge_tags(existing_tags, auto_tags))
            ELSE IF include_existing_when_no_auto THEN SomeTags(existing_tags)
            ELSE NoTags
        success == update_transaction(http_ok)
        write == [transaction_id |-> transaction_id,
                  category_name |-> prediction.category,
                  tags |-> tags_payload, ok |-> http_ok]
        learnt == ServiceLearn(mem, tf, dsk, d, prediction.category)
    IN IF success
       THEN [success |-> TRUE, writes |-> <<write>>,
             learns |-> <<[d |-> d, c |-> prediction.category]>>,
             memory |-> learnt.memory, tfidf |-> learnt.tfidf, disk |-> learnt.disk,
             raised |-> learnt.raised]
       ELSE [success |-> FALSE, writes |-> <<write>>, learns |-> <<>>,
             memory |-> mem, tfidf |-> tf, disk |-> dsk, raised |-> FALSE]

\* evaluate_auto_approval: (success, reason) and what it did
evaluate_auto_approval(mem, tf, dsk, transaction_id, d, prediction, existing_tags, include_existing_when_no_auto, threshold, auto_tags, http_ok) ==
    LET reason == auto_approval_reason(threshold, prediction)
        applied == apply_auto_approval(mem, tf, dsk, transaction_id, d, prediction,
                                       existing_tags, include_existing_when_no_auto,
                                       auto_tags, http_ok)
    IN IF reason # None
       THEN [success |-> FALSE, reason |-> reason, writes |-> <<>>, learns |-> <<>>,
             memory |-> mem, tfidf |-> tf, disk |-> dsk, raised |-> FALSE]
       ELSE [success |-> applied.success,
             reason |-> IF applied.success THEN "updated" ELSE "failed",
             writes |-> applied.writes, learns |-> applied.learns,
             memory |-> applied.memory, tfidf |-> applied.tfidf, disk |-> applied.disk,
             raised |-> applied.raised]

\* FireflyClient.update_transaction, lines 436-439: the body of the PUT holds
\* the category name, and the tags only when the list given is not empty
transaction_payload(write) ==
    [category_name |-> write.category_name,
     tags |-> IF write.tags.some /\ write.tags.tags # <<>>
              THEN SomeTags(write.tags.tags) ELSE NoTags]

\* predict_for_snapshot, the call site of the transaction listing with
\* predict=true and of the categorize stream: maybe_auto_approve with
\* include_existing_when_no_auto left at False
predict_for_snapshot_approval(mem, tf, dsk, transaction_id, d, prediction, existing_tags, threshold, auto_tags, http_ok) ==
    evaluate_auto_approval(mem, tf, dsk, transaction_id, d, prediction, existing_tags,
                           FALSE, threshold, auto_tags, http_ok)

\* predict_for_snapshot, lines 136-163, given what the cascade answered (got)
\* and what maybe_auto_approve does with its prediction (approval)
snapshot_outcome(mem, tf, dsk, snapshot, got, approval) ==
    LET untouched == [consulted |-> <<>>, attempted |-> FALSE, writes |-> <<>>,
                      learns |-> <<>>, memory |-> mem, tfidf |-> tf, disk |-> dsk,
                      raised |-> FALSE, prediction |-> NoResult,
                      existing_cat |-> None, auto_approved |-> FALSE]
    IN IF snapshot.category_name # None
       THEN [untouched EXCEPT !.existing_cat = snapshot.category_name]
       ELSE IF got.result # NoResult /\ snapshot.transaction_id # None
       THEN [untouched EXCEPT !.consulted = got.consulted, !.attempted = TRUE,
                              !.writes = approval.writes, !.learns = approval.learns,
                              !.memory = approval.memory, !.tfidf = approval.tfidf,
                              !.disk = approval.disk, !.raised = approval.raised,
                              !.prediction = IF approval.success THEN NoResult ELSE got.result,
                              !.existing_cat = IF approval.success /\ ~approval.raised
                                               THEN got.result.category ELSE None,
                              !.auto_approved = approval.success /\ ~approval.raised]
       ELSE [untouched EXCEPT !.consulted = got.consulted, !.prediction = got.result]

\* predict_for_snapshot on the cascade state (mem, tf, dsk): the triple
\* (prediction, existing_cat, auto_approved) it returns and what it did;
\* raised when the learn call of the auto-approval raised (nothing is
\* returned then)
predict_for_snapshot(cls, mem, tf, dsk, snapshot, valid_categories, threshold, pred, out, auto_tags, http_ok) ==
    LET got == categorize(cls, mem, tf, snapshot.description, valid_categories, pred, out)
    IN snapshot_outcome(mem, tf, dsk, snapshot, got,
                        predict_for_snapshot_approval(mem, tf, dsk, snapshot.transaction_id,
                                                      snapshot.description, got.result,
                                                      snapshot.tags, threshold, auto_tags,
                                                      http_ok))

\* firefly_webhook, lines 82-107: its own auto_approval_reason test, then
\* apply_auto_approval with include_existing_when_no_auto=True
webhook_approval(mem, tf, dsk, transaction_id, d, prediction, existing_tags, threshold, auto_tags, http_ok) ==
    IF auto_approval_reason(threshold, prediction) # None
    THEN [success |-> FALSE, writes |-> <<>>, learns |-> <<>>,
          memory |-> mem, tfidf |-> tf, disk |-> dsk, raised |-> FALSE]
    ELSE apply_auto_approval(mem, tf, dsk, transaction_id, d, prediction, existing_tags,
                             TRUE, auto_tags, http_ok)

-----------------------------------------------------------------------------
(* The ledger: FireflyClient.yield_transactions (integration/firefly.py) *)

-----------------------------------------------------------------------------
(* The prediction call sites (api/routes) and fetch_category_names *)

\* the keyword arguments FireflyClient.get_categories accepts
\* (integration/firefly.py, line 372)
GetCategoriesKeywords == {"use_cache"}

\* what get_categories returns: the ledger's categories, <<>> when the ledger
\* has none, when the fetch failed with nothing cached, and without credentials
CategoryLists == {<<>>, <<"c1">>, <<"c1", "c2">>}

\* fetch_category_names(firefly) (services/firefly_data.py, lines 34-49): it
\* calls firefly.get_categories(raise_on_error=raise_on_error), a call that
\* raises TypeError when get_categories does not accept the keyword
fetch_category_names(raw_cats) ==
    IF "raise_on_error" \in GetCategoriesKeywords
    THEN [raised |-> FALSE, names |-> raw_cats]
    ELSE [raised |-> TRUE, names |-> <<>>]

\* `valid_categories if valid_categories else None` at each site
site_valid_categories(names) ==
    IF names = <<>> THEN NoRestriction ELSE [some |-> TRUE, cats |-> Range(names)]

Sites == {"categorize", "listing", "stream", "webhook"}

\* what a site does with the restriction it has built: POST /categorize
\* returns pipeline.predict, the listing and the stream call
\* predict_for_snapshot, the webhook calls predict and then decides on the
\* auto-approval itself
site_call(site, cls, mem, tf, dsk, d, valid_categories, threshold, pred, out, http_ok) ==
    LET got == categorize(cls, mem, tf, d, valid_categories, pred, out)
        snapshot == [transaction_id |-> "1", description |-> d, category_name |-> None,
                     tags |-> <<>>]
        quiet == [consulted |-> got.consulted, prediction |-> got.result,
                  memory |-> mem, tfidf |-> tf, disk |-> dsk, raised |-> FALSE]
        shown == predict_for_snapshot(cls, mem, tf, dsk, snapshot, valid_categories,
                                      threshold, pred, out, <<>>, http_ok)
        hooked == webhook_approval(mem, tf, dsk, "1", d, got.result, <<>>, threshold,
                                   <<>>, http_ok)
    IN IF site = "categorize" THEN quiet
       ELSE IF site \in {"listing", "stream"}
       THEN [quiet EXCEPT !.memory = shown.memory, !.tfidf = shown.tfidf,
                          !.disk = shown.disk, !.raised = shown.raised]
       ELSE IF got.result = NoResult THEN quiet
       ELSE [quiet EXCEPT !.memory = hooked.memory, !.tfidf = hooked.tfidf,
                          !.disk = hooked.disk, !.raised = hooked.raised]

txA == [id |-> "1", description |-> dA_B, category_name |-> "c1"]
txB == [id |-> "2", description |-> dB_A, category_name |-> "c2"]
txU == [id |-> "2", description |-> dA_B, category_name |-> None]
txN == [id |-> None, description |-> dB_A, category_name |-> "c2"]
txE1 == [id |-> "1", description |-> dEmpty, category_name |-> "c1"]
txE2 == [id |-> "2", description |-> dEmpty, category_name |-> "c2"]

\* the non-empty pages a ledger is made of
Pages == {<<txA, txB>>, <<txU, txN>>, <<txE1, txE2>>}
Ledgers == UNION {[1..n -> Pages] : n \in 0..MaxPages}

\* One step of the generator. yielded is the number of pages it has yielded;
\* it stops after the page that reaches meta's total_pages, at an empty page
\* and at a failed request (http_ok = FALSE), and yields the page otherwise.
\* The result is the page, <<>> when the iteration ends.
yield_transactions(pages, yielded, http_ok) ==
    IF yielded >= 1 /\ yielded >= Len(pages) THEN <<>>
    ELSE IF ~http_ok THEN <<>>
    ELSE IF yielded + 1 > Len(pages) THEN <<>>
    ELSE pages[yielded + 1]

-----------------------------------------------------------------------------
(* TrainingManager (services/training.py) *)

\* the first and the second training run of a behaviour
Runs == {1, 2}

IdleStatus == [stage |-> "idle", active |-> FALSE]

IdleRun ==
    [kind |-> "none", pc |-> "idle",
     yielded |-> 0,                 \* pages yield_transactions has yielded
     page_txs |-> <<>>, i |-> 1,    \* _process_training_page: the page, the next index
     page_trained |-> 0, page_skipped_uncategorized |-> 0, page_skipped_duplicate |-> 0,
     trained_count |-> 0, skipped_count |-> 0, skipped_duplicate |-> 0,
     total_fetched |-> 0, pause_requested |-> FALSE,
     events |-> <<>>,               \* what stream() has yielded
     result |-> [status |-> None],  \* what train_bulk() returned
     paused_run |-> FALSE,          \* a pause request was accepted during this run
     pause_pages |-> 0,             \* the pages fully processed when the first one was
     pause_in_page |-> FALSE,       \* and whether a page was being processed then
     learned |-> 0,                 \* service.learn calls of this run that returned
     pages_done |-> <<>>,           \* the pages fully processed by this run
     step |-> "check",              \* where the worker thread is in its transaction
     taught |-> <<>>]               \* the ids of the transactions its thread has taught

Ended(r) == run[r].pc \in {"done", "raised", "closed"}

\* What is kept of the calls that returned before run r starts: of the call
\* just before it, how it ended, the pages it processed and how many
\* transactions it trained; of the earlier ones, how they ended. (The locals
\* of a call that has returned are no state of the program.)
Summary(rr) ==
    [IdleRun EXCEPT !.kind = rr.kind, !.pc = rr.pc, !.pages_done = rr.pages_done,
                    !.trained_count = rr.trained_count]
Starting(r, started) ==
    [q \in Runs |-> IF q = r THEN started
                    ELSE IF ~Ended(q) THEN run[q]
                    ELSE IF q = r - 1 THEN Summary(run[q])
                    ELSE IF q < r THEN [IdleRun EXCEPT !.kind = run[q].kind,
                                                       !.pc = run[q].pc]
                    ELSE run[q]]
InProgress(r) == run[r].pc \notin {"idle", "done", "raised", "closed"}

\* the finally clause of stream()
Finally ==
    /\ active' = FALSE
    /\ pause_event' = FALSE
    /\ status' = [status EXCEPT !.active = FALSE]

\* stream(), lines 145-168: up to the yield of the start event
StreamStart(r) ==
    /\ run[r].pc = "idle"
    /\ active' = TRUE
    /\ pause_event' = FALSE
    /\ status' = [stage |-> "start", active |-> TRUE, trained |-> 0, skipped |-> 0,
                  fetched |-> 0]
    /\ run' = Starting(r, [run[r] EXCEPT !.kind = "stream", !.pc = "start",
                                         !.events = <<[stage |-> "start"]>>])
    /\ UNCHANGED <<constVars, cascadeVars, seen_ids, ledger, pg, fc, resp>>

\* train_bulk(), lines 89-94
BulkStart(r) ==
    /\ run[r].pc = "idle"
    /\ run' = Starting(r, [run[r] EXCEPT !.kind = "bulk", !.pc = "fetch"])
    /\ UNCHANGED <<constVars, cascadeVars, managerVars, ledger, pg, fc, resp>>

\* the consumer asks for the next event: the generator leaves its yield
StreamResume(r) ==
    /\ run[r].kind = "stream"
    /\ \/ /\ run[r].pc \in {"start", "processing"}
          /\ run' = [run EXCEPT ![r] = [@ EXCEPT !.pc = "fetch"]]
          /\ UNCHANGED managerVars
       \/ /\ run[r].pc \in {"paused", "complete"}
          /\ run' = [run EXCEPT ![r] = [@ EXCEPT !.pc = "done"]]
          /\ Finally
          /\ UNCHANGED seen_ids
    /\ UNCHANGED <<constVars, cascadeVars, ledger, pg, fc, resp>>

PausedEvent(rr) ==
    [stage |-> "paused", trained |-> rr.trained_count, skipped |-> rr.skipped_count,
     total_fetched |-> rr.total_fetched, fetched |-> rr.total_fetched]
CompleteEvent(rr) ==
    [stage |-> "complete", trained |-> rr.trained_count, skipped |-> rr.skipped_count,
     total_fetched |-> rr.total_fetched]
ProcessingEvent(rr) ==
    [stage |-> "processing", trained |-> rr.trained_count, skipped |-> rr.skipped_count,
     fetched |-> rr.total_fetched]

WithActive(event, a) ==
    [k \in DOMAIN event \cup {"active"} |-> IF k = "active" THEN a ELSE event[k]]

\* lines 224-247: the paused status and event
EmitPaused(r, rr) ==
    /\ status' = WithActive(PausedEvent(rr), FALSE)
    /\ run' = [run EXCEPT ![r] = [rr EXCEPT !.pc = "paused", !.pause_requested = TRUE,
                                            !.events = Append(@, PausedEvent(rr))]]

\* lines 249-259: the complete status and event
EmitComplete(r, rr) ==
    /\ status' = WithActive(CompleteEvent(rr), FALSE)
    /\ run' = [run EXCEPT ![r] = [rr EXCEPT !.pc = "complete",
                                            !.events = Append(@, CompleteEvent(rr))]]

\* lines 171-179: the next page arrives (or the iteration ends) and the pause
\* flag is tested before the page is counted
StreamFetch(r, http_ok) ==
    /\ run[r].kind = "stream" /\ run[r].pc = "fetch"
    /\ LET txs == yield_transactions(ledger, run[r].yielded, http_ok)
       IN IF txs = <<>>
          THEN EmitComplete(r, run[r])
          ELSE IF pause_event
          THEN EmitPaused(r, [run[r] EXCEPT !.yielded = @ + 1])
          ELSE /\ run' = [run EXCEPT ![r] =
                            [@ EXCEPT !.pc = "page", !.yielded = @ + 1,
                                      !.page_txs = txs, !.i = 1,
                                      !.page_trained = 0,
                                      !.page_skipped_uncategorized = 0,
                                      !.page_skipped_duplicate = 0,
                                      !.total_fetched = @ + Len(txs)]]
               /\ UNCHANGED status
    /\ UNCHANGED <<constVars, cascadeVars, active, pause_event, seen_ids, ledger, pg, fc, resp>>

\* (mutant) train_bulk tests the pause flag when a page arrives, as stream() does
BulkFetchPausing(r, http_ok) ==
    /\ run[r].kind = "bulk" /\ run[r].pc = "fetch"
    /\ LET txs == yield_transactions(ledger, run[r].yielded, http_ok)
           result == [status |-> "success", trained |-> run[r].trained_count,
                      skipped |-> run[r].skipped_count, total |-> run[r].total_fetched,
                      fetched |-> run[r].total_fetched]
       IN IF txs = <<>>
          THEN run' = [run EXCEPT ![r] = [@ EXCEPT !.pc = "done", !.result = result]]
          ELSE IF pause_event
          THEN run' = [run EXCEPT ![r] = [@ EXCEPT !.pc = "done", !.yielded = @ + 1,
                                                   !.result = result]]
          ELSE run' = [run EXCEPT ![r] =
                         [@ EXCEPT !.pc = "page", !.yielded = @ + 1,
                                   !.page_txs = txs, !.i = 1,
                                   !.page_trained = 0,
                                   !.page_skipped_uncategorized = 0,
                                   !.page_skipped_duplicate = 0,
                                   !.total_fetched = @ + Len(txs)]]
    /\ UNCHANGED <<constVars, cascadeVars, managerVars, ledger, pg, fc, resp>>

\* train_bulk(), lines 96-97 and 117-132
BulkFetch(r, http_ok) ==
    /\ run[r].kind = "bulk" /\ run[r].pc = "fetch"
    /\ LET txs == yield_transactions(ledger, run[r].yielded, http_ok)
       IN IF txs = <<>>
          THEN run' = [run EXCEPT ![r] =
                         [@ EXCEPT !.pc = "done",
                                   !.result = [status |-> "success",
                                               trained |-> run[r].trained_count,
                                               skipped |-> run[r].skipped_count,
                                               total |-> run[r].total_fetched,
                                               fetched |-> run[r].total_fetched]]]
          ELSE run' = [run EXCEPT ![r] =
                         [@ EXCEPT !.pc = "page", !.yielded = @ + 1,
                                   !.page_txs = txs, !.i = 1,
                                   !.page_trained = 0,
                                   !.page_skipped_uncategorized = 0,
                                   !.page_skipped_duplicate = 0,
                                   !.total_fetched = @ + Len(txs)]]
    /\ UNCHANGED <<constVars, cascadeVars, managerVars, ledger, pg, fc, resp>>


\* (mutant) the trained transaction's id is not recorded
RecordSeenNever(seen, tx_id) == seen

\* (mutant) the id is recorded whether the transaction carries one or not
RecordSeenAnyId(seen, tx_id) == seen \cup {tx_id}

\* _process_training_page, lines 83-84: the trained transaction's id is recorded
RecordSeen(seen, tx_id) == IF tx_id # None THEN seen \cup {tx_id} ELSE seen

\* _process_training_page, lines 67-84: one transaction of the page, in the
\* worker thread. A learn call that raises ends the page (and the run) with
\* the memory already taught and the id not recorded.
ProcessTx(r) ==
    /\ run[r].pc \in {"page", "orphan"}
    /\ run[r].i <= Len(run[r].page_txs)
    /\ LET rr == run[r]
           t == rr.page_txs[rr.i]
           tx_id == t.id
           learnt == ServiceLearn(memory, tfidf, disk, t.description, t.category_name)
       IN IF tx_id # None /\ tx_id \in seen_ids
          THEN /\ run' = [run EXCEPT ![r] =
                            [rr EXCEPT !.i = @ + 1, !.page_skipped_duplicate = @ + 1]]
               /\ UNCHANGED <<cascadeVars, managerVars>>
          ELSE IF t.category_name = None
          THEN /\ run' = [run EXCEPT ![r] =
                            [rr EXCEPT !.i = @ + 1, !.page_skipped_uncategorized = @ + 1]]
               /\ UNCHANGED <<cascadeVars, managerVars>>
          ELSE /\ memory' = learnt.memory
               /\ tfidf' = learnt.tfidf
               /\ disk' = learnt.disk
               /\ IF learnt.raised
                  THEN IF rr.kind = "stream" /\ rr.pc = "page"
                       THEN /\ run' = [run EXCEPT ![r] = [rr EXCEPT !.pc = "raised"]]
                            /\ Finally
                            /\ UNCHANGED seen_ids
                       ELSE /\ run' = [run EXCEPT ![r] =
                                         [rr EXCEPT !.pc = IF rr.pc = "orphan"
                                                           THEN "closed" ELSE "raised"]]
                            /\ UNCHANGED managerVars
                  ELSE /\ run' = [run EXCEPT ![r] =
                                    [rr EXCEPT !.i = @ + 1, !.page_trained = @ + 1,
                                               !.learned = @ + 1]]
                       /\ seen_ids' = RecordSeen(seen_ids, tx_id)
                       /\ UNCHANGED <<active, pause_event, status>>
    /\ UNCHANGED <<constVars, ledger, pg, fc, resp>>

\* _process_training_page runs in a worker thread (asyncio.to_thread), so the
\* threads of two runs, and the handlers of the event loop, run between the
\* statements of its loop. Its loop body in three steps: the tests of lines
\* 68-77, memory.learn (manager.py line 73), and tfidf.learn with the
\* recording of the id (manager.py line 74, lines 82-84).
WorkerCheck(r) ==
    /\ run[r].pc \in {"page", "orphan"} /\ run[r].step = "check"
    /\ run[r].i <= Len(run[r].page_txs)
    /\ LET rr == run[r]
           t == rr.page_txs[rr.i]
           tx_id == t.id
       IN IF tx_id # None /\ tx_id \in seen_ids
          THEN run' = [run EXCEPT ![r] =
                         [rr EXCEPT !.i = @ + 1, !.page_skipped_duplicate = @ + 1]]
          ELSE IF t.category_name = None
          THEN run' = [run EXCEPT ![r] =
                         [rr EXCEPT !.i = @ + 1, !.page_skipped_uncategorized = @ + 1]]
          ELSE run' = [run EXCEPT ![r] = [rr EXCEPT !.step = "memory"]]
    /\ UNCHANGED <<constVars, cascadeVars, managerVars, ledger, pg, fc, resp>>

WorkerLearnMemory(r) ==
    /\ run[r].pc \in {"page", "orphan"} /\ run[r].step = "memory"
    /\ LET t == run[r].page_txs[run[r].i]
           m == MemoryLearn(memory, t.description, t.category_name)
       IN /\ memory' = m
          /\ disk' = [disk EXCEPT !.memory_json = OkFile(m)]
    /\ run' = [run EXCEPT ![r] = [@ EXCEPT !.step = "tfidf"]]
    /\ UNCHANGED <<constVars, tfidf, managerVars, ledger, pg, fc, resp>>

WorkerLearnTfidf(r) ==
    /\ run[r].pc \in {"page", "orphan"} /\ run[r].step = "tfidf"
    /\ LET rr == run[r]
           t == rr.page_txs[rr.i]
           learnt == TfidfLearn(tfidf, t.description, t.category_name)
       IN /\ tfidf' = learnt.tfidf
          /\ disk' = IF learnt.saved
                     THEN [disk EXCEPT !.tfidf_pkl =
                               OkFile(<<learnt.tfidf.examples, learnt.tfidf.labels>>)]
                     ELSE disk
          /\ IF learnt.raised
             THEN IF rr.kind = "stream" /\ rr.pc = "page"
                  THEN /\ run' = [run EXCEPT ![r] = [rr EXCEPT !.pc = "raised"]]
                       /\ Finally
                       /\ UNCHANGED seen_ids
                  ELSE /\ run' = [run EXCEPT ![r] =
                                    [rr EXCEPT !.pc = IF rr.pc = "orphan"
                                                      THEN "closed" ELSE "raised"]]
                       /\ UNCHANGED managerVars
             ELSE /\ run' = [run EXCEPT ![r] =
                               [rr EXCEPT !.i = @ + 1, !.page_trained = @ + 1,
                                          !.learned = @ + 1, !.step = "check",
                                          !.taught = Append(@, t.id)]]
                  /\ seen_ids' = RecordSeen(seen_ids, t.id)
                  /\ UNCHANGED <<active, pause_event, status>>
    /\ UNCHANGED <<constVars, memory, ledger, pg, fc, resp>>

\* (mutant) the page's trained transactions are not added
AddPageNoTrained(rr) ==
    [rr EXCEPT !.skipped_count = @ + rr.page_skipped_uncategorized,
               !.skipped_duplicate = @ + rr.page_skipped_duplicate,
               !.pages_done = Append(@, rr.page_txs)]

\* (mutant) the page's uncategorized transactions are not added
AddPageNoSkipped(rr) ==
    [rr EXCEPT !.trained_count = @ + rr.page_trained,
               !.skipped_duplicate = @ + rr.page_skipped_duplicate,
               !.pages_done = Append(@, rr.page_txs)]

\* (mutant) the page's duplicates are not added
AddPageNoDuplicate(rr) ==
    [rr EXCEPT !.trained_count = @ + rr.page_trained,
               !.skipped_count = @ + rr.page_skipped_uncategorized,
               !.pages_done = Append(@, rr.page_txs)]

\* the page's counts added to the run's totals (lines 105-107 and 187-189)
AddPage(rr) ==
    [rr EXCEPT !.trained_count = @ + rr.page_trained,
               !.skipped_count = @ + rr.page_skipped_uncategorized,
               !.skipped_duplicate = @ + rr.page_skipped_duplicate,
               !.pages_done = Append(@, rr.page_txs)]

\* stream(), lines 186-222: the worker thread has returned; the totals are
\* updated, the pause flag is tested, a processing event is emitted
StreamPageDone(r) ==
    /\ run[r].kind = "stream" /\ run[r].pc = "page"
    /\ run[r].i > Len(run[r].page_txs)
    /\ LET rr == AddPage(run[r])
       IN IF pause_event
          THEN EmitPaused(r, rr)
          ELSE /\ status' = WithActive(ProcessingEvent(rr), TRUE)
               /\ run' = [run EXCEPT ![r] =
                            [rr EXCEPT !.pc = "processing",
                                       !.events = Append(@, ProcessingEvent(rr))]]
    /\ UNCHANGED <<constVars, cascadeVars, active, pause_event, seen_ids, ledger, pg, fc, resp>>

\* train_bulk(), lines 104-115
BulkPageDone(r) ==
    /\ run[r].kind = "bulk" /\ run[r].pc = "page"
    /\ run[r].i > Len(run[r].page_txs)
    /\ run' = [run EXCEPT ![r] = [AddPage(run[r]) EXCEPT !.pc = "fetch"]]
    /\ UNCHANGED <<constVars, cascadeVars, managerVars, ledger, pg, fc, resp>>

\* The consumer goes away. Suspended at the yield of the start event the
\* generator is closed outside its try statement, so the finally clause does
\* not run; at every other yield and at an await it runs. A page being
\* processed in the worker thread is processed to its end all the same.
StreamClose(r) ==
    /\ run[r].kind = "stream"
    /\ \/ /\ run[r].pc = "start"
          /\ run' = [run EXCEPT ![r] = [@ EXCEPT !.pc = "closed"]]
          /\ UNCHANGED managerVars
       \/ /\ run[r].pc \in {"processing", "paused", "complete", "fetch"}
          /\ run' = [run EXCEPT ![r] = [@ EXCEPT !.pc = "closed"]]
          /\ Finally
          /\ UNCHANGED seen_ids
       \/ /\ run[r].pc = "page"
          /\ run' = [run EXCEPT ![r] = [@ EXCEPT !.pc = "orphan"]]
          /\ Finally
          /\ UNCHANGED seen_ids
    /\ UNCHANGED <<constVars, cascadeVars, ledger, pg, fc, resp>>

\* the worker thread of a closed run reaches the end of its page
OrphanDone(r) ==
    /\ run[r].pc = "orphan"
    /\ run[r].i > Len(run[r].page_txs)
    /\ run' = [run EXCEPT ![r] = [@ EXCEPT !.pc = "closed"]]
    /\ UNCHANGED <<constVars, cascadeVars, managerVars, ledger, pg, fc, resp>>

\* the run has not reached its terminal event
Fetching(r) == run[r].pc \in {"start", "fetch", "page", "processing"}

\* the run has accepted a pause request: what it had done by then is kept
Accepting(rr) ==
    [rr EXCEPT !.paused_run = TRUE,
               !.pause_pages = IF rr.paused_run THEN @ ELSE Len(rr.pages_done),
               !.pause_in_page = IF rr.paused_run THEN @ ELSE rr.pc = "page"]

\* (mutant) the flag is set whether a run is active or not
RequestPauseAlways ==
    /\ pause_event' = TRUE
    /\ resp' = [op |-> "request_pause", result |-> active]
    /\ run' = [r \in Runs |-> IF active /\ Fetching(r)
                              THEN Accepting(run[r]) ELSE run[r]]
    /\ UNCHANGED <<constVars, cascadeVars, active, seen_ids, status, ledger, pg, fc>>

\* request_pause(), through POST /train-pause
RequestPause ==
    /\ pause_event' = (IF active THEN TRUE ELSE pause_event)
    /\ resp' = [op |-> "request_pause", result |-> active]
    /\ run' = [r \in Runs |-> IF active /\ Fetching(r)
                              THEN Accepting(run[r]) ELSE run[r]]
    /\ UNCHANGED <<constVars, cascadeVars, active, seen_ids, status, ledger, pg, fc>>

\* reset_state()
reset_state ==
    /\ seen_ids' = {}
    /\ pause_event' = FALSE
    /\ status' = IdleStatus
    /\ active' = FALSE

\* POST /train-reset (api/routes/training.py): 409 while active, else clear_seen_ids()
TrainReset ==
    /\ IF active
       THEN /\ resp' = [op |-> "train_reset", code |-> 409]
            /\ UNCHANGED seen_ids
       ELSE /\ clears < MaxClears
            /\ resp' = [op |-> "train_reset", code |-> 200, cleared |-> Cardinality(seen_ids)]
            /\ seen_ids' = {}
    /\ clears' = IF active THEN clears ELSE clears + 1
    /\ UNCHANGED <<llm_enabled, cascadeVars, active, pause_event, status, ledger, pg, fc, run>>

\* POST /clear-models (api/routes/training.py): clear_models(), then reset_state()
ClearModels ==
    /\ clears < MaxClears
    /\ clears' = clears + 1
    /\ memory' = ServiceClear(disk).memory
    /\ tfidf' = ServiceClear(disk).tfidf
    /\ disk' = ServiceClear(disk).disk
    /\ reset_state
    /\ resp' = [op |-> "clear_models", code |-> 200]
    /\ UNCHANGED <<llm_enabled, ledger, pg, fc, run>>

-----------------------------------------------------------------------------
(* Calls on the cascade and the pipeline *)

NoResp == [op |-> None]

\* the predictions handed to the pipeline's approval methods
Predictions == [category : Cats, confidence : {500, 900, 1000}, source : {"llm"}]

\* CategorizerService.categorize(transaction, valid_categories), as
\* CategorizationPipeline.predict calls it
Categorize(d, valid_categories, pred, out) ==
    /\ pred \in TfidfPreds(tfidf)
    /\ LET got == categorize(Classifiers(llm_enabled), memory, tfidf, d,
                             valid_categories, pred, out)
       IN resp' = [op |-> "categorize", d |-> d, valid |-> valid_categories,
                   pred |-> pred, out |-> out,
                   consulted |-> got.consulted, result |-> got.result]
    /\ UNCHANGED <<constVars, cascadeVars, managerVars, ledger, pg, fc, run>>

\* CategorizationPipeline.evaluate_auto_approval(...); its caller
\* maybe_auto_approve leaves include_existing_when_no_auto at its default False
EvaluateAutoApproval(transaction_id, d, prediction, existing_tags, include_existing_when_no_auto, threshold, auto_tags, http_ok) ==
    /\ Len(tfidf.examples) < MaxExamples
    /\ LET got == evaluate_auto_approval(memory, tfidf, disk, transaction_id, d,
                                         prediction, existing_tags,
                                         include_existing_when_no_auto, threshold,
                                         auto_tags, http_ok)
       IN /\ memory' = got.memory
          /\ tfidf' = got.tfidf
          /\ disk' = got.disk
          /\ resp' = [op |-> "evaluate_auto_approval", d |-> d,
                      prediction |-> prediction, threshold |-> threshold,
                      success |-> got.success, reason |-> got.reason,
                      writes |-> got.writes, learns |-> got.learns,
                      raised |-> got.raised]
    /\ UNCHANGED <<constVars, managerVars, ledger, pg, fc, run>>

\* CategorizationPipeline.apply_auto_approval(...), as the webhook calls it
\* after its own auto_approval_reason test, with include_existing_when_no_auto
\* True
ApplyAutoApproval(transaction_id, d, prediction, existing_tags, include_existing_when_no_auto, auto_tags, http_ok) ==
    /\ Len(tfidf.examples) < MaxExamples
    /\ LET got == apply_auto_approval(memory, tfidf, disk, transaction_id, d,
                                      prediction, existing_tags,
                                      include_existing_when_no_auto, auto_tags, http_ok)
       IN /\ memory' = got.memory
          /\ tfidf' = got.tfidf
          /\ disk' = got.disk
          /\ resp' = [op |-> "apply_auto_approval", d |-> d,
                      prediction |-> prediction,
                      existing_tags |-> existing_tags, auto_tags |-> auto_tags,
                      include_existing_when_no_auto |-> include_existing_when_no_auto,
                      success |-> got.success,
                      writes |-> got.writes, learns |-> got.learns,
                      raised |-> got.raised]
    /\ UNCHANGED <<constVars, managerVars, ledger, pg, fc, run>>

\* (mutant) the ledger write comes first and the cascade is taught only when
\* it did not fail
LearnAfterWrite(transaction_id, d, c, existing_tags, manual_tags, http_ok) ==
    /\ Len(tfidf.examples) < MaxExamples
    /\ LET written == transaction_id = None \/ update_transaction(http_ok)
           learnt == IF written THEN ServiceLearn(memory, tfidf, disk, d, c)
                     ELSE [memory |-> memory, tfidf |-> tfidf, disk |-> disk,
                           raised |-> FALSE]
       IN /\ memory' = learnt.memory
          /\ tfidf' = learnt.tfidf
          /\ disk' = learnt.disk
          /\ resp' = [op |-> "learn", transaction_id |-> transaction_id,
                      d |-> d, c |-> c, raised |-> learnt.raised,
                      writes |-> IF transaction_id # None
                                 THEN <<[transaction_id |-> transaction_id,
                                         category_name |-> c, tags |-> NoTags,
                                         ok |-> http_ok]>>
                                 ELSE <<>>,
                      learns |-> IF written THEN <<[d |-> d, c |-> c]>> ELSE <<>>,
                      firefly_update |->
                          IF transaction_id = None THEN "skipped"
                          ELSE IF update_transaction(http_ok) THEN "success"
                          ELSE "failed"]
    /\ UNCHANGED <<constVars, managerVars, ledger, pg, fc, run>>

\* POST /learn (api/routes/training.py, lines 75-109): learn first, then the
\* ledger write when a transaction id is given
Learn(transaction_id, d, c, existing_tags, manual_tags, http_ok) ==
    /\ Len(tfidf.examples) < MaxExamples
    /\ LET learnt == ServiceLearn(memory, tfidf, disk, d, c)
           write == [transaction_id |-> transaction_id, category_name |-> c,
                     tags |-> IF manual_tags # <<>>
                              THEN SomeTags(merge_tags(existing_tags, manual_tags))
                              ELSE NoTags,
                     ok |-> http_ok]
       IN /\ memory' = learnt.memory
          /\ tfidf' = learnt.tfidf
          /\ disk' = learnt.disk
          /\ resp' = IF learnt.raised
                     THEN [op |-> "learn", transaction_id |-> transaction_id,
                           d |-> d, c |-> c, raised |-> TRUE,
                           writes |-> <<>>, learns |-> <<>>]
                     ELSE [op |-> "learn", transaction_id |-> transaction_id,
                           d |-> d, c |-> c, raised |-> FALSE,
                           writes |-> IF transaction_id # None THEN <<write>> ELSE <<>>,
                           learns |-> <<[d |-> d, c |-> c]>>,
                           firefly_update |->
                               IF transaction_id = None THEN "skipped"
                               ELSE IF update_transaction(http_ok) THEN "success"
                               ELSE "failed"]
    /\ UNCHANGED <<constVars, managerVars, ledger, pg, fc, run>>

\* CategorizationPipeline.predict_for_snapshot(snapshot, valid_categories,
\* auto_approve_threshold), as the transaction listing and the categorize
\* stream call it
PredictForSnapshot(snapshot, valid_categories, threshold, pred, out, auto_tags, http_ok) ==
    /\ Len(tfidf.examples) < MaxExamples
    /\ pred \in TfidfPreds(tfidf)
    /\ \E got \in {predict_for_snapshot(Classifiers(llm_enabled), memory, tfidf, disk,
                                        snapshot, valid_categories, threshold, pred, out,
                                        auto_tags, http_ok)} :
          /\ memory' = got.memory
          /\ tfidf' = got.tfidf
          /\ disk' = got.disk
          /\ resp' = [op |-> "predict_for_snapshot", snapshot |-> snapshot,
                      consulted |-> got.consulted, attempted |-> got.attempted,
                      writes |-> got.writes, learns |-> got.learns,
                      raised |-> got.raised, prediction |-> got.prediction,
                      existing_cat |-> got.existing_cat,
                      auto_approved |-> got.auto_approved]
    /\ UNCHANGED <<constVars, managerVars, ledger, pg, fc, run>>

\* A request at one of the prediction call sites: categorize_transaction
\* (api/routes/categorize.py), get_transactions with predict=true and
\* categorize_stream (api/routes/transactions.py), firefly_webhook
\* (api/routes/webhook.py), for one uncategorized transaction; raw_cats is
\* what the ledger client would return for the categories
PredictAt(site, raw_cats, d, threshold, pred, out, http_ok) ==
    /\ Len(tfidf.examples) < MaxExamples
    /\ pred \in TfidfPreds(tfidf)
    /\ LET fetched == fetch_category_names(raw_cats)
           valid == site_valid_categories(fetched.names)
       IN IF fetched.raised
          THEN /\ resp' = [op |-> "predict_at", site |-> site, raw_cats |-> raw_cats,
                           raised |-> TRUE, valid |-> valid, consulted |-> <<>>,
                           prediction |-> NoResult]
               /\ UNCHANGED cascadeVars
          ELSE \E got \in {site_call(site, Classifiers(llm_enabled), memory, tfidf, disk,
                                     d, valid, threshold, pred, out, http_ok)} :
                  /\ memory' = got.memory
                  /\ tfidf' = got.tfidf
                  /\ disk' = got.disk
                  /\ resp' = [op |-> "predict_at", site |-> site, raw_cats |-> raw_cats,
                              raised |-> got.raised, valid |-> valid,
                              consulted |-> got.consulted, prediction |-> got.prediction]
    /\ UNCHANGED <<constVars, managerVars, ledger, pg, fc, run>>

\* a file is damaged behind the back of the process
Damage(f, state) ==
    /\ disk[f].state = "ok"
    /\ disk' = [disk EXCEPT ![f] = DamagedFile(state)]
    /\ resp' = [op |-> "damage"]
    /\ UNCHANGED <<constVars, memory, tfidf, managerVars, ledger, pg, fc, run>>

\* The process is started again: a new CategorizerService loads the two files
\* and a new TrainingManager starts idle with an empty seen_ids. When a load
\* raises, the constructor raises and there is no service: raised is set and
\* nothing is served until the process is started again.
Restart ==
    /\ clears < MaxClears + MaxRestarts
    /\ clears' = clears + 1
    /\ LET raised == MemoryLoadRaises(disk.memory_json) \/ TfidfLoadRaises(disk.tfidf_pkl)
       IN /\ memory' = (IF raised THEN <<>> ELSE MemoryLoad(disk.memory_json))
          /\ tfidf' = (IF raised THEN EmptyTfidf ELSE TfidfLoad(disk.tfidf_pkl))
          /\ resp' = [op |-> "restart", raised |-> raised]
    /\ reset_state
    /\ UNCHANGED <<llm_enabled, disk, ledger, pg, fc, run>>

\* the response has been delivered
StartFailed == resp.op = "restart" /\ resp.raised

Respond ==
    /\ resp # NoResp
    /\ ~StartFailed
    /\ resp' = NoResp
    /\ UNCHANGED <<constVars, cascadeVars, managerVars, ledger, pg, fc, run>>

-----------------------------------------------------------------------------
(* FireflyClient: the category cache (integration/firefly.py) *)

\* the get_categories() calls that may be in progress together
Callers == {1, 2}

\* FIREFLY_CATEGORIES_TTL as the environment gives it: -1 stands for every
\* value that is not positive
EnvTtls == {-1, 1, 2}
DefaultTtl == 60

\* A fetched list is named by the fetch that returned it: [fetch, epoch], the
\* ordinal of the fetch (from 1) and the number of refresh() calls made before
\* the fetch was issued (history).  NoList is Python's None, EmptyList is [].
NoList == [fetch |-> -1, epoch |-> 0]
EmptyList == [fetch |-> 0, epoch |-> 0]
NoFetch == [fetch |-> 0, at |-> 0, epoch |-> 0]
IdleCall == [pc |-> "idle", epoch |-> 0, at |-> 0, during |-> 0, fetched |-> 0, issued |-> 0]

\* __init__: an empty cache, expiry 0.0, ttl = max(0.0, cache_ttl), the lock
\* free.  now, fetches, refreshes and last_ok are the clock and the history.
NewClient(configured, cache_ttl) ==
    [configured |-> configured,
     cache |-> NoList,
     expires_at |-> 0,
     ttl |-> IF cache_ttl < 0 THEN 0 ELSE cache_ttl,
     holder |-> 0,
     waiters |-> <<>>,
     call |-> [i \in Callers |-> IdleCall],
     now |-> 0,
     fetches |-> 0,
     refreshes |-> 0,
     last_ok |-> NoFetch]

\* (mutant) an entry is still served at the instant it expires
get_cached_categories_late(c, allow_stale) ==
    IF c.cache = NoList \/ c.ttl <= 0 THEN NoList
    ELSE IF allow_stale THEN c.cache
    ELSE IF c.now > c.expires_at THEN NoList
    ELSE c.cache

\* _get_cached_categories(allow_stale=...)
get_cached_categories(c, allow_stale) ==
    IF c.cache = NoList \/ c.ttl <= 0 THEN NoList
    ELSE IF allow_stale THEN c.cache
    ELSE IF c.now >= c.expires_at THEN NoList
    ELSE c.cache

\* _cache_categories(categories)
cache_categories(c, categories) ==
    IF c.ttl <= 0 THEN c
    ELSE [c EXCEPT !.cache = categories, !.expires_at = c.now + c.ttl]

\* (mutant) the cache lock is never seen as taken
NeverLocked(c) == FALSE

\* asyncio.Lock.acquire waits when the lock is held or others wait for it
Locked(c) == c.holder # 0 \/ c.waiters # <<>>

\* asyncio.Lock.release: the first waiter, if any, is woken and has the lock
Release(c) ==
    IF c.waiters = <<>> THEN [c EXCEPT !.holder = 0]
    ELSE [c EXCEPT !.holder = Head(c.waiters),
                   !.waiters = Tail(c.waiters),
                   !.call[Head(c.waiters)].pc = "woken"]

\* the fetch in flight, 0 when there is none
InFlight(c) ==
    IF \E j \in Callers : c.call[j].pc = "fetching"
    THEN (CHOOSE j \in Callers : c.call[j].pc = "fetching")
    ELSE 0

\* the call of caller i returns result: [fc, result, call]
Return(c, i, result) ==
    [fc |-> [c EXCEPT !.call[i] = IdleCall], result |-> result, call |-> c.call[i]]

\* (mutant) a failed fetch answers the empty list
StaleOrEmptyNoStale(c) == EmptyList

\* lines 390-395: the stale entry if there is one, else []
StaleOrEmpty(c) ==
    IF get_cached_categories(c, TRUE) # NoList THEN get_cached_categories(c, TRUE)
    ELSE EmptyList

\* get_categories, lines 378-386, with the lock held by caller i: a hit
\* returns the cached list and releases the lock, a miss issues the fetch
CheckCache(c, i) ==
    IF get_cached_categories(c, FALSE) # NoList
    THEN Return(Release(c), i, get_cached_categories(c, FALSE))
    ELSE [fc |-> [c EXCEPT !.fetches = c.fetches + 1,
                           !.call[i].pc = "fetching",
                           !.call[i].fetched = c.fetches + 1,
                           !.call[i].issued = c.refreshes],
          result |-> NoList, call |-> c.call[i]]

\* get_categories() is called by caller i (use_cache is left at True by
\* every caller of the repository)
GetCategoriesCall(c, i) ==
    LET started == [c EXCEPT !.call[i] =
                       [pc |-> "start", epoch |-> c.refreshes, at |-> c.now,
                        during |-> IF InFlight(c) = 0 THEN 0
                                   ELSE c.call[InFlight(c)].fetched,
                        fetched |-> 0, issued |-> 0]]
    IN IF ~c.configured THEN Return(started, i, EmptyList)
       ELSE IF Locked(c)
       THEN [fc |-> [started EXCEPT !.waiters = Append(c.waiters, i),
                                    !.call[i].pc = "waiting"],
             result |-> NoList, call |-> started.call[i]]
       ELSE CheckCache([started EXCEPT !.holder = i], i)

\* the ledger answers the fetch of caller i, ok or not
FetchReturn(c, i, ok) ==
    LET lst == [fetch |-> c.call[i].fetched, epoch |-> c.call[i].issued]
    IN IF ok
       THEN Return(Release([cache_categories(c, lst) EXCEPT
                               !.last_ok = [fetch |-> lst.fetch, at |-> c.now,
                                            epoch |-> lst.epoch]]),
                   i, lst)
       ELSE Return(Release(c), i, StaleOrEmpty(c))

\* what a finished call leaves in resp
CallResp(i, r) ==
    IF r.result = NoList THEN NoResp
    ELSE [op |-> "get_categories", caller |-> i, result |-> r.result,
          epoch |-> r.call.epoch, at |-> r.call.at, during |-> r.call.during,
          fetched |-> r.call.fetched]

GetCategories(i) ==
    /\ fc.call[i].pc = "idle"
    /\ fc.fetches < MaxFetches
    /\ fc' = GetCategoriesCall(fc, i).fc
    /\ resp' = CallResp(i, GetCategoriesCall(fc, i))
    /\ UNCHANGED <<constVars, cascadeVars, managerVars, ledger, pg, run>>

\* a caller that waited for the lock has it and goes on
LockAcquired(i) ==
    /\ fc.call[i].pc = "woken"
    /\ fc.fetches < MaxFetches
    /\ fc' = CheckCache(fc, i).fc
    /\ resp' = CallResp(i, CheckCache(fc, i))
    /\ UNCHANGED <<constVars, cascadeVars, managerVars, ledger, pg, run>>

FetchDone(i, ok) ==
    /\ fc.call[i].pc = "fetching"
    /\ fc' = FetchReturn(fc, i, ok).fc
    /\ resp' = CallResp(i, FetchReturn(fc, i, ok))
    /\ UNCHANGED <<constVars, cascadeVars, managerVars, ledger, pg, run>>

\* refresh(): synchronous, it takes no lock; the credentials and the TTL are
\* read again from the environment
Refresh(configured, env_ttl) ==
    /\ fc.refreshes < MaxRefreshes
    /\ fc' = [fc EXCEPT !.configured = configured,
                        !.cache = NoList,
                        !.expires_at = 0,
                        !.ttl = env_ttl,
                        !.refreshes = fc.refreshes + 1]
    /\ resp' = [op |-> "refresh"]
    /\ UNCHANGED <<constVars, cascadeVars, managerVars, ledger, pg, run>>

\* the monotonic clock advances
Tick ==
    /\ fc.now < MaxTime
    /\ fc' = [fc EXCEPT !.now = fc.now + 1]
    /\ UNCHANGED <<constVars, cascadeVars, managerVars, ledger, pg, run, resp>>

-----------------------------------------------------------------------------
(* FireflyClient.yield_transactions, request by request (integration/firefly.py) *)

\* What the server serves in this part: a page is a list of transactions
\* [id, created_at], possibly empty; meta is the pagination block of every
\* response, with or without total_pages. An id is a string of characters.
itA == [id |-> <<"a">>, created_at |-> 1]
itB == [id |-> <<"b">>, created_at |-> 1]
itC == [id |-> <<"a", "b">>, created_at |-> 0]
PageChoices == {<<>>, <<itB, itC, itA>>}
PageLedgers == UNION {[1..n -> PageChoices] : n \in 0..MaxPages}
NoMeta == [has_total_pages |-> FALSE, total_pages |-> 0]
Metas == {NoMeta} \cup {[has_total_pages |-> TRUE, total_pages |-> n] : n \in 1..(MaxPages + 1)}

\* _sort_transactions_by_created_at: by (timestamp, id), the list sort is stable
SortKeyLeq(a, b) ==
    \/ a.created_at < b.created_at
    \/ a.created_at = b.created_at /\ StrLess(a.id, b.id)
    \/ a.created_at = b.created_at /\ a.id = b.id

RECURSIVE sort_transactions_by_created_at(_)
sort_transactions_by_created_at(txs) ==
    IF txs = <<>> THEN <<>>
    ELSE LET rest == sort_transactions_by_created_at(Tail(txs))
             k == Cardinality({j \in 1..Len(rest) : ~SortKeyLeq(Head(txs), rest[j])})
         IN SubSeq(rest, 1, k) \o <<Head(txs)>> \o SubSeq(rest, k + 1, Len(rest))

\* the generator before its first step, in front of a server that reports meta
IdlePages(meta) ==
    [pc |-> "idle", page |-> 1, sort_supported |-> TRUE, meta |-> meta,
     why |-> "none",        \* why the iteration ended (history)
     requests |-> <<>>,     \* the page requests sent: [page, sort] (history)
     yields |-> <<>>]       \* what was yielded: [page, txs, meta] (history)

\* meta.get("total_pages", 1)
TotalPages(meta) == IF meta.has_total_pages THEN meta.total_pages ELSE 1

\* (mutant) one more page is asked for after the last
LastPageLate(page, meta) == page > TotalPages(meta)

\* line 299: if page >= total_pages: break
LastPage(page, meta) == page >= TotalPages(meta)

EndPages(g, why) == [g EXCEPT !.pc = "ended", !.why = why]

\* lines 173-175 and 289-297: the response was accepted; an empty list ends
\* the iteration, any other is sorted and yielded with the meta
PageReceived(g, pages) ==
    LET transactions == IF g.page <= Len(pages) THEN pages[g.page] ELSE <<>>
    IN IF transactions = <<>> THEN EndPages(g, "empty")
       ELSE [g EXCEPT !.pc = "yielded",
                      !.yields = Append(@, [page |-> g.page,
                                            txs |-> sort_transactions_by_created_at(transactions),
                                            meta |-> g.meta])]

\* the generator is started: lines 273-279
PagesStart ==
    /\ pg.pc = "idle"
    /\ pg' = IF fc.configured THEN [pg EXCEPT !.pc = "request"]
             ELSE EndPages(pg, "unconfigured")
    /\ UNCHANGED <<constVars, cascadeVars, managerVars, ledger, fc, run, resp>>

\* _fetch_transactions_page, lines 139-156: the request of the page, sorted
\* while sort_supported; outcome is "ok", "400" or "error" (any other failure)
PageRequest(outcome) ==
    /\ pg.pc = "request"
    /\ LET g == [pg EXCEPT !.requests = Append(@, [page |-> pg.page, sort |-> pg.sort_supported])]
       IN pg' = IF outcome = "ok" THEN PageReceived(g, ledger)
                ELSE IF outcome = "400" /\ pg.sort_supported
                THEN [g EXCEPT !.pc = "retry", !.sort_supported = FALSE]
                ELSE EndPages(g, "failed")
    /\ UNCHANGED <<constVars, cascadeVars, managerVars, ledger, fc, run, resp>>

\* lines 157-170: the same page is asked for again without sort and order
PageRetry(outcome) ==
    /\ pg.pc = "retry"
    /\ LET g == [pg EXCEPT !.requests = Append(@, [page |-> pg.page, sort |-> FALSE])]
       IN pg' = IF outcome = "ok" THEN PageReceived(g, ledger) ELSE EndPages(g, "failed")
    /\ UNCHANGED <<constVars, cascadeVars, managerVars, ledger, fc, run, resp>>

\* the consumer asks for the next page: lines 299-302
PageResume ==
    /\ pg.pc = "yielded"
    /\ pg' = IF LastPage(pg.page, pg.meta) THEN EndPages(pg, "last_page")
             ELSE [pg EXCEPT !.pc = "request", !.page = @ + 1]
    /\ UNCHANGED <<constVars, cascadeVars, managerVars, ledger, fc, run, resp>>

\* the consumer closes the generator at a yield
PagesClose ==
    /\ pg.pc = "yielded"
    /\ pg' = [pg EXCEPT !.pc = "closed"]
    /\ UNCHANGED <<constVars, cascadeVars, managerVars, ledger, fc, run, resp>>

-----------------------------------------------------------------------------
(* Specifications *)

InitCommon ==
    /\ memory = <<>>
    /\ tfidf = EmptyTfidf
    /\ disk = [memory_json |-> AbsentFile, tfidf_pkl |-> AbsentFile]
    /\ active = FALSE
    /\ pause_event = FALSE
    /\ seen_ids = {}
    /\ status = IdleStatus
    /\ run = [r \in Runs |-> IdleRun]
    /\ clears = 0
    /\ resp = NoResp

\* Training: a fresh installation in front of some ledger
Init ==
    /\ InitCommon
    /\ fc = NewClient(TRUE, DefaultTtl)
    /\ pg = IdlePages(NoMeta)
    /\ llm_enabled = FALSE
    /\ ledger \in Ledgers

\* a run is started when the runs before it have ended: one client at a time
CanStart(r) == \A q \in Runs : q < r => Ended(q)

\* no response is waiting to be returned
Ready == resp = NoResp

Next ==
    \/ \E r \in Runs : Ready /\ CanStart(r) /\ StreamStart(r)
    \/ \E r \in Runs : Ready /\ CanStart(r) /\ BulkStart(r)
    \/ \E r \in Runs : Ready /\ StreamResume(r)
    \/ \E r \in Runs, http_ok \in BOOLEAN : Ready /\ StreamFetch(r, http_ok)
    \/ \E r \in Runs, http_ok \in BOOLEAN : Ready /\ BulkFetch(r, http_ok)
    \/ \E r \in Runs : Ready /\ ProcessTx(r)
    \/ \E r \in Runs : Ready /\ StreamPageDone(r)
    \/ \E r \in Runs : Ready /\ BulkPageDone(r)
    \/ \E r \in Runs : Ready /\ StreamClose(r)
    \/ \E r \in Runs : Ready /\ OrphanDone(r)
    \/ Ready /\ RequestPause
    \/ Ready /\ TrainReset
    \/ Ready /\ ClearModels
    \/ Respond

Spec == Init /\ [][Next]_vars

\* The cascade and the pipeline: requests served one at a time, no training run
InitCascade ==
    /\ InitCommon
    /\ fc = NewClient(TRUE, DefaultTtl)
    /\ pg = IdlePages(NoMeta)
    /\ llm_enabled \in BOOLEAN
    /\ ledger = <<>>

NextCascade ==
    \/ \E d \in Descs, v \in Restrictions, out \in LlmOutputs, pred \in TfidfPreds(tfidf) :
          Ready /\ Categorize(d, v, pred, out)
    \/ \E id \in {"1"}, d \in Descs, p \in Predictions, tags \in ExistingTagChoices,
          thr \in Thresholds, auto \in AutoTagChoices, ok \in BOOLEAN :
          Ready /\ EvaluateAutoApproval(id, d, p, tags, FALSE, thr, auto, ok)
    \/ \E id \in {"1"}, d \in Descs, p \in Predictions, tags \in ExistingTagChoices,
          auto \in AutoTagChoices, ok \in BOOLEAN :
          Ready /\ ApplyAutoApproval(id, d, p, tags, TRUE, auto, ok)
    \/ \E id \in {None, "1"}, d \in Descs, c \in Cats, tags \in ExistingTagChoices,
          manual \in AutoTagChoices, ok \in BOOLEAN :
          Ready /\ Learn(id, d, c, tags, manual, ok)
    \/ Ready /\ ClearModels
    \/ Respond

SpecCascade == InitCascade /\ [][NextCascade]_vars

\* The two strategies that learn and their files: manual learn requests,
\* clearings, restarts of the process, and categorize calls in between
NextPersist ==
    \/ \E d \in Descs, c \in Cats : Ready /\ Learn(None, d, c, <<>>, <<>>, TRUE)
    \/ \E d \in Descs, v \in {NoRestriction, [some |-> TRUE, cats |-> {"c1"}]},
          pred \in TfidfPreds(tfidf) :
          Ready /\ Categorize(d, v, pred, None)
    \/ Ready /\ ClearModels
    \/ Ready /\ Restart
    \/ Respond

SpecPersist == InitCascade /\ [][NextPersist]_vars

\* The listing and the stream of predictions: snapshots are predicted one at
\* a time on a cascade that manual learn requests have taught
Snapshots ==
    [transaction_id : {None, "1"}, description : Descs, category_name : {None, "c1"},
     tags : {<<>>}]

NextSnapshot ==
    \/ \E d \in Descs, c \in Cats : Ready /\ Learn(None, d, c, <<>>, <<>>, TRUE)
    \/ \E snapshot \in Snapshots, v \in {NoRestriction, [some |-> TRUE, cats |-> {"c2"}]},
          thr \in {0, 900}, out \in {None, "c1", "c2"}, pred \in TfidfPreds(tfidf),
          ok \in BOOLEAN :
          Ready /\ PredictForSnapshot(snapshot, v, thr, pred, out, <<>>, ok)
    \/ Respond

SpecSnapshot == InitCascade /\ [][NextSnapshot]_vars

\* The tags of an auto-approval write: apply_auto_approval on tag lists with
\* empty and repeated tags, with and without AUTO_APPROVE_TAGS
MaxTags == 2
TagLists == UNION {[1..n -> {"", "t1", "auto"}] : n \in 0..MaxTags}
AutoTagLists == {<<>>, <<"auto">>, <<"auto", "t2">>}

NextTags ==
    \/ \E tags \in TagLists, auto \in AutoTagLists, include \in BOOLEAN, ok \in BOOLEAN :
          Ready /\ ApplyAutoApproval("1", dA_B, [category |-> "c1", confidence |-> 900,
                                                 source |-> "llm"],
                                     tags, include, auto, ok)
    \/ Respond

SpecTags == InitCascade /\ [][NextTags]_vars

\* The same, with files that get damaged between two starts of the process
NextStartup ==
    \/ \E d \in Descs, c \in Cats : Ready /\ Learn(None, d, c, <<>>, <<>>, TRUE)
    \/ \E d \in Descs, pred \in TfidfPreds(tfidf) : Ready /\ Categorize(d, NoRestriction, pred, None)
    \/ \E f \in {"memory_json", "tfidf_pkl"}, state \in DamagedStates : Ready /\ Damage(f, state)
    \/ (Ready \/ StartFailed) /\ Restart
    \/ Respond

SpecStartup == InitCascade /\ [][NextStartup]_vars

\* A cascade that is taught by approvals only: the webhook's and the
\* listing's auto-approvals, categorize calls and clearings
NextApproved ==
    \/ \E d \in Descs, p \in Predictions, thr \in {0, 900}, ok \in BOOLEAN :
          Ready /\ EvaluateAutoApproval("1", d, p, <<>>, FALSE, thr, <<>>, ok)
    \/ \E d \in Descs, p \in Predictions, ok \in BOOLEAN :
          Ready /\ ApplyAutoApproval("1", d, p, <<>>, TRUE, <<>>, ok)
    \/ \E d \in Descs, v \in Restrictions, out \in LlmOutputs, pred \in TfidfPreds(tfidf) :
          Ready /\ Categorize(d, v, pred, out)
    \/ Ready /\ ClearModels
    \/ Respond

SpecApproved == InitCascade /\ [][NextApproved]_vars

\* The prediction call sites in front of a cascade that manual learn requests
\* have taught
NextSites ==
    \/ \E d \in Descs, c \in Cats : Ready /\ Learn(None, d, c, <<>>, <<>>, TRUE)
    \/ \E site \in Sites, raw_cats \in CategoryLists, d \in Descs, thr \in {0, 900},
          out \in LlmOutputs, pred \in TfidfPreds(tfidf), ok \in BOOLEAN :
          Ready /\ PredictAt(site, raw_cats, d, thr, pred, out, ok)
    \/ Respond

SpecSites == InitCascade /\ [][NextSites]_vars

\* Overlapping training runs: GET /train-stream and POST /train are served
\* while an earlier run is still at work, each page in its own worker thread,
\* in front of a ledger of one page
InitConc ==
    /\ InitCommon
    /\ fc = NewClient(TRUE, DefaultTtl)
    /\ pg = IdlePages(NoMeta)
    /\ llm_enabled = FALSE
    /\ ledger \in {<<p>> : p \in Pages}

NextConc ==
    \/ \E r \in Runs : Ready /\ StreamStart(r)
    \/ \E r \in Runs : Ready /\ BulkStart(r)
    \/ \E r \in Runs : Ready /\ StreamResume(r)
    \/ \E r \in Runs : Ready /\ StreamFetch(r, TRUE)
    \/ \E r \in Runs : Ready /\ BulkFetch(r, TRUE)
    \/ \E r \in Runs : Ready /\ WorkerCheck(r)
    \/ \E r \in Runs : Ready /\ WorkerLearnMemory(r)
    \/ \E r \in Runs : Ready /\ WorkerLearnTfidf(r)
    \/ \E r \in Runs : Ready /\ StreamPageDone(r)
    \/ \E r \in Runs : Ready /\ BulkPageDone(r)
    \/ Ready /\ RequestPause
    \/ Ready /\ TrainReset
    \/ Ready /\ ClearModels
    \/ Respond

SpecConc == InitConc /\ [][NextConc]_vars

\* The memory matcher alone, on descriptions whose similarity scores lie
\* below, at and above the threshold: As(9) scores 90 against As(11), 85.7
\* against As(12) and 94.7 against As(10); "a b" scores 100 against "b a".
As(n) == [i \in 1..n |-> "a"]
FuzzDescs == {dEmpty, dA_B, dB_A, As(9), As(10), As(11), As(12)}
MaxKeys == 2
\* what was taught, in order: sequences of learn calls on distinct descriptions
TaughtSeqs ==
    {t \in UNION {[1..n -> [d : FuzzDescs, c : Cats]] : n \in 0..MaxKeys} :
        \A i, j \in DOMAIN t : i # j => t[i].d # t[j].d}

\* the service after the learn calls of t, on a fresh installation
RECURSIVE Taught(_, _)
Taught(t, st) ==
    IF t = <<>> THEN st
    ELSE Taught(Tail(t), ServiceLearn(st.memory, st.tfidf, st.disk, Head(t).d, Head(t).c))

FreshService ==
    [memory |-> <<>>, tfidf |-> EmptyTfidf,
     disk |-> [memory_json |-> AbsentFile, tfidf_pkl |-> AbsentFile], raised |-> FALSE]

InitMemory ==
    /\ \E t \in TaughtSeqs :
          /\ memory = Taught(t, FreshService).memory
          /\ tfidf = Taught(t, FreshService).tfidf
          /\ disk = Taught(t, FreshService).disk
    /\ llm_enabled = FALSE
    /\ fc = NewClient(TRUE, DefaultTtl)
    /\ pg = IdlePages(NoMeta)
    /\ active = FALSE
    /\ pause_event = FALSE
    /\ seen_ids = {}
    /\ status = IdleStatus
    /\ ledger = <<>>
    /\ run = [r \in Runs |-> IdleRun]
    /\ clears = 0
    /\ resp = NoResp

\* MemoryMatcher.classify(transaction, valid_categories)
MemoryClassifyCall(d, valid_categories) ==
    /\ resp' = [op |-> "memory_classify", d |-> d, valid |-> valid_categories,
                result |-> MemoryClassify(memory, d, valid_categories)]
    /\ UNCHANGED <<constVars, cascadeVars, managerVars, ledger, pg, fc, run>>

NextMemory ==
    \/ \E d \in FuzzDescs, v \in Restrictions : Ready /\ MemoryClassifyCall(d, v)
    \/ Respond

SpecMemory == InitMemory /\ [][NextMemory]_vars

\* The category cache: a client built with some TTL, its callers, the clock
InitCache ==
    /\ InitCommon
    /\ llm_enabled = FALSE
    /\ ledger = <<>>
    /\ fc \in {NewClient(TRUE, t) : t \in EnvTtls}
    /\ pg = IdlePages(NoMeta)

NextCache ==
    \/ \E i \in Callers : Ready /\ GetCategories(i)
    \/ \E i \in Callers : Ready /\ LockAcquired(i)
    \/ \E i \in Callers, ok \in BOOLEAN : Ready /\ FetchDone(i, ok)
    \/ \E configured \in BOOLEAN, t \in EnvTtls : Ready /\ Refresh(configured, t)
    \/ Ready /\ Tick
    \/ Respond

SpecCache == InitCache /\ [][NextCache]_vars

\* One iteration of yield_transactions in front of some server
InitPages ==
    /\ InitCommon
    /\ llm_enabled = FALSE
    /\ fc \in {NewClient(c, DefaultTtl) : c \in BOOLEAN}
    /\ ledger \in PageLedgers
    /\ pg \in {IdlePages(m) : m \in Metas}

NextPages ==
    \/ PagesStart
    \/ \E outcome \in {"ok", "400", "error"} : PageRequest(outcome)
    \/ \E outcome \in {"ok", "400", "error"} : PageRetry(outcome)
    \/ PageResume
    \/ PagesClose

SpecPages == InitPages /\ [][NextPages]_vars

-----------------------------------------------------------------------------
(* Claims on the cascade and the pipeline (SpecCascade) *)

CascadeOrder == IF llm_enabled THEN <<"memory", "tfidf", "llm">> ELSE <<"memory", "tfidf">>
\* what strategy name answers to the categorize call recorded in resp
AnswerOf(name) ==
    Classify(name, memory, tfidf, resp.d, resp.valid, resp.pred, resp.out)

\* C1: categorize consults memory, text classifier, LLM in this order (the LLM
\* only when it was configured), returns the first answer that is not none
\* without consulting a later strategy, and returns none iff every configured
\* strategy returned none.
C1_CascadePriority ==
    resp.op = "categorize" =>
        LET hits == {i \in 1..Len(CascadeOrder) : AnswerOf(CascadeOrder[i]) # NoResult}
        IN /\ hits = {} => /\ resp.result = NoResult
                           /\ resp.consulted = CascadeOrder
           /\ hits # {} =>
                LET first == CHOOSE i \in hits : \A j \in hits : i <= j
                IN /\ resp.result = AnswerOf(CascadeOrder[first])
                   /\ resp.consulted = SubSeq(CascadeOrder, 1, first)
           /\ (resp.result = NoResult) <=> (hits = {})
           /\ ~llm_enabled => "llm" \notin Range(resp.consulted)

\* memory and the text classifier would both answer: the memory result is returned
C1_Witness ==
    /\ resp.op = "categorize"
    /\ resp.result.source = "memory_exact"
    /\ resp.consulted = <<"memory">>
    /\ AnswerOf("tfidf") # NoResult

\* C2: an auto-approval attempt teaches the cascade the (transaction, predicted
\* category) pair iff the ledger write reported success; after a failed write
\* the memory mapping and the example set are what they were before.
C2_TaughtIffWritten ==
    [][(resp = NoResp /\ resp'.op \in {"evaluate_auto_approval", "apply_auto_approval"}
          /\ resp'.writes # <<>>)
       => IF resp'.writes[1].ok
          THEN /\ resp'.success
               /\ resp'.learns = <<[d |-> resp'.d, c |-> resp'.prediction.category]>>
               /\ memory' = MemoryLearn(memory, resp'.d, resp'.prediction.category)
               /\ tfidf'.examples = Append(tfidf.examples, resp'.d)
               /\ tfidf'.labels = Append(tfidf.labels, resp'.prediction.category)
          ELSE /\ ~resp'.success
               /\ resp'.learns = <<>>
               /\ memory' = memory
               /\ tfidf' = tfidf
               /\ disk' = disk]_vars

\* a rejected write on a cascade that had been taught before
C2_Witness ==
    /\ resp.op \in {"evaluate_auto_approval", "apply_auto_approval"}
    /\ resp.writes # <<>>
    /\ ~resp.writes[1].ok
    /\ resp.learns = <<>>
    /\ memory # <<>>
    /\ ~MemoryHas(memory, resp.d)

\* C3: the decision of evaluate_auto_approval depends on (threshold, confidence)
\* alone: disabled when threshold <= 0, low_confidence when 0 < threshold and
\* confidence < threshold, and a ledger write otherwise (also at confidence =
\* threshold); a refusal does no ledger write and no learn call.
C3_Decision ==
    resp.op = "evaluate_auto_approval" =>
        LET thr == resp.threshold
            conf == resp.prediction.confidence
        IN /\ thr <= 0 =>
                /\ resp.reason = "disabled" /\ ~resp.success
                /\ resp.writes = <<>> /\ resp.learns = <<>>
           /\ (thr > 0 /\ conf < thr) =>
                /\ resp.reason = "low_confidence" /\ ~resp.success
                /\ resp.writes = <<>> /\ resp.learns = <<>>
           /\ (thr > 0 /\ conf >= thr) =>
                /\ Len(resp.writes) = 1
                /\ resp.writes[1].category_name = resp.prediction.category
                /\ resp.reason = (IF resp.writes[1].ok THEN "updated" ELSE "failed")

\* a confidence equal to the threshold goes to the ledger
C3_Witness ==
    /\ resp.op = "evaluate_auto_approval"
    /\ resp.threshold > 0
    /\ resp.prediction.confidence = resp.threshold
    /\ Len(resp.writes) = 1

\* C4: with a non-empty valid-category list V, every result of every strategy
\* and of the cascade has its category in V; a strategy whose answer is not in
\* V returns none, and the text classifier returns none (no runner-up) when
\* its arg-max class is not in V.
C4_Restriction ==
    (resp.op = "categorize" /\ resp.valid.some /\ resp.valid.cats # {}) =>
        /\ \A name \in {"memory", "tfidf", "llm"} :
              AnswerOf(name) # NoResult => AnswerOf(name).category \in resp.valid.cats
        /\ resp.result # NoResult => resp.result.category \in resp.valid.cats
        /\ (resp.pred.class \notin resp.valid.cats) => AnswerOf("tfidf") = NoResult
        /\ (resp.out \notin resp.valid.cats) => AnswerOf("llm") = NoResult

\* every strategy has an answer outside V and the cascade returns none
C4_Witness ==
    /\ resp.op = "categorize"
    /\ resp.valid = [some |-> TRUE, cats |-> {"c1"}]
    /\ MemoryClassify(memory, resp.d, NoRestriction).category = "c2"
    /\ TfidfClassify(tfidf, NoRestriction, resp.pred).category = "c2"
    /\ LlmClassify(NoRestriction, resp.out).category = "c2"
    /\ llm_enabled
    /\ resp.result = NoResult

-----------------------------------------------------------------------------
(* Claims on the training manager (Spec) *)

\* the transactions of a sequence of pages, in order
RECURSIVE Flatten(_)
Flatten(pages) == IF pages = <<>> THEN <<>> ELSE Head(pages) \o Flatten(Tail(pages))

Count(seq, P(_)) == Cardinality({k \in 1..Len(seq) : P(seq[k])})

\* run r and the run after it are two train_bulk() calls that returned, saw
\* the same pages, and nothing was cleared
TwoBulkRuns(r) ==
    /\ r + 1 \in Runs
    /\ run[r].kind = "bulk" /\ run[r].pc = "done"
    /\ run[r + 1].kind = "bulk" /\ run[r + 1].pc = "done"
    /\ run[r].pages_done = run[r + 1].pages_done
    /\ clears = 0

\* C5 (as stated): the second of two train_bulk() runs over the same dataset,
\* whatever the dataset, calls learn for no transaction, reports zero trained,
\* and counts every transaction the first run trained as a duplicate.
C5_SecondRunTrainsNothing ==
    \A r \in Runs : TwoBulkRuns(r) =>
        /\ run[r + 1].learned = 0
        /\ run[r + 1].result.trained = 0
        /\ run[r + 1].skipped_duplicate >= run[r].trained_count

\* C5 (amended): the second run counts as a duplicate every transaction whose
\* id the first run trained, and calls learn exactly for the categorized
\* transactions that carry no id (zero of them when every transaction has one).
C5_SecondRunSkipsRecordedIds ==
    \A r \in Runs : TwoBulkRuns(r) =>
        LET ds == Flatten(run[r].pages_done)
            trainedIds == {ds[k].id : k \in {j \in 1..Len(ds) :
                                ds[j].category_name # None /\ ds[j].id # None}}
            isDup(t) == t.id \in trainedIds
            noId(t) == t.category_name # None /\ t.id = None
        IN /\ run[r + 1].learned = Count(ds, noId)
           /\ run[r + 1].result.trained = Count(ds, noId)
           /\ run[r + 1].skipped_duplicate >= Count(ds, isDup)
           /\ trainedIds \subseteq seen_ids

\* two runs over a dataset with trained transactions, all of them carrying an id
C5_Witness ==
    \E r \in Runs :
        /\ TwoBulkRuns(r)
        /\ run[r].trained_count = 2
        /\ run[r + 1].learned = 0
        /\ run[r + 1].skipped_duplicate >= 2

LastEvent(r) == run[r].events[Len(run[r].events)]
EndsWith(r, stage) == run[r].events # <<>> /\ LastEvent(r).stage = stage

\* C6 (as stated): a stream() run during which a pause request was accepted
\* (before its terminal event) ends with the paused event.
C6_PauseEndsPaused ==
    \A r \in Runs :
        (run[r].kind = "stream" /\ run[r].paused_run /\ run[r].pc = "done" /\ clears = 0)
            => EndsWith(r, "paused")

\* C6 (amended): a paused event is emitted only in a run that accepted a pause
\* request; its counters are the sums over exactly the pages fully processed
\* (a page that had arrived when the flag was observed is not counted), the
\* status shows the same counters, and no page is fetched after it. (A pause
\* accepted after the last page's check ends the run with complete.)
C6_PausedCounters ==
    \A r \in Runs : (run[r].kind = "stream" /\ EndsWith(r, "paused")) =>
        LET ev == LastEvent(r)
            done == run[r].pages_done
            ds == Flatten(done)
            uncategorized(t) == t.category_name = None
        IN /\ run[r].paused_run
           /\ done = SubSeq(ledger, 1, Len(done))
           /\ run[r].yielded \in {Len(done), Len(done) + 1}
           /\ ev.fetched = Len(ds) /\ ev.total_fetched = Len(ds)
           /\ ev.trained = run[r].learned
           /\ ev.trained + ev.skipped + run[r].skipped_duplicate = Len(ds)
           /\ ev.skipped <= Count(ds, uncategorized)
           /\ (run[r].pc = "paused" /\ status.stage = "paused") =>
                 /\ status.trained = ev.trained
                 /\ status.skipped = ev.skipped
                 /\ status.fetched = ev.fetched

\* the flag was observed when the second page arrived: the first page is
\* counted, the second is not
C6_Witness ==
    \E r \in Runs :
        /\ run[r].kind = "stream" /\ EndsWith(r, "paused")
        /\ Len(run[r].pages_done) = 1
        /\ run[r].yielded = 2
        /\ LastEvent(r).trained + LastEvent(r).skipped > 0

\* C7 (as stated): while the manager is active, train-reset and clear-models are
\* answered with a conflict and leave SeenIdSet, the status, the active flag
\* and the pause flag unchanged.
C7_ResetRejectedWhileActive ==
    [][(active /\ resp = NoResp /\ resp'.op \in {"train_reset", "clear_models"})
          => (resp'.code = 409 /\ UNCHANGED managerVars)]_vars

\* C8 (as stated): once a stream() run has ended (and nothing was reset and no
\* later run has started), the status stage is complete, paused or error.
C8_EndStage ==
    \A r \in Runs :
        (/\ run[r].kind = "stream" /\ Ended(r)
         /\ clears = 0
         /\ \A q \in Runs : q > r => run[q].pc = "idle")
            => status.stage \in {"complete", "paused", "error"}

Fetched(ev) == IF "fetched" \in DOMAIN ev THEN ev.fetched ELSE ev.total_fetched

\* start, then processing events, then one terminal event, counters not decreasing
WellFormed(events) ==
    /\ Len(events) >= 2
    /\ events[1].stage = "start"
    /\ events[Len(events)].stage \in {"paused", "complete"}
    /\ \A k \in 2..(Len(events) - 1) : events[k].stage = "processing"
    /\ \A k \in 2..(Len(events) - 1) :
          /\ events[k].trained <= events[k + 1].trained
          /\ events[k].skipped <= events[k + 1].skipped
          /\ Fetched(events[k]) <= Fetched(events[k + 1])

\* C9 (as stated): a stream() run that ended by itself (its consumer read it to
\* the end; no later run has started) has emitted start, then processing events, then exactly one
\* terminal event paused or complete, with counters that never decrease.
C9_EventSequence ==
    \A r \in Runs :
        (/\ run[r].kind = "stream" /\ run[r].pc \in {"done", "raised"}
         /\ \A q \in Runs : q > r => run[q].pc = "idle")
            => WellFormed(run[r].events)

-----------------------------------------------------------------------------
(* Claims on the strategies that learn and their files (SpecPersist) *)

ExactResult(c) == [category |-> c, confidence |-> 1000, source |-> "memory_exact"]

\* C11: a learn call makes the memory map its description to its category and
\* changes no other entry (so a description maps to the category of its most
\* recent learn call), a reload from the persisted file changes no entry, and
\* an unrestricted categorize of a stored description returns the stored
\* category with confidence 1.0 and source memory_exact.
C11_ExactRecall ==
    [][/\ (Ready /\ resp'.op = "learn") =>
             /\ MemoryHas(memory', resp'.d)
             /\ MemoryGet(memory', resp'.d) = resp'.c
             /\ \A d \in Descs \ {resp'.d} :
                   /\ MemoryHas(memory', d) <=> MemoryHas(memory, d)
                   /\ MemoryHas(memory, d) => MemoryGet(memory', d) = MemoryGet(memory, d)
       /\ (Ready /\ resp'.op = "restart") =>
             \A d \in Descs :
                   /\ MemoryHas(memory', d) <=> MemoryHas(memory, d)
                   /\ MemoryHas(memory, d) => MemoryGet(memory', d) = MemoryGet(memory, d)
       /\ (Ready /\ resp'.op = "categorize" /\ resp'.valid = NoRestriction
             /\ MemoryHas(memory, resp'.d)) =>
             resp'.result = ExactResult(MemoryGet(memory, resp'.d))]_vars

\* a description taught twice, with two categories, is recalled after a restart:
\* the file holds the second category
C11_Witness ==
    /\ resp.op = "categorize"
    /\ resp.valid = NoRestriction
    /\ clears = 1
    /\ Len(memory) = 1
    /\ Len(tfidf.examples) = 2 /\ tfidf.labels = <<"c1", "c2">>
    /\ tfidf.examples[1] = resp.d /\ tfidf.examples[2] = resp.d
    /\ resp.result = ExactResult("c2")

\* C13: while the labels the text classifier holds are all the same (nothing
\* but learn calls with one label since it was untrained or cleared), the text
\* classifier returns none for every description, restriction and model
\* output, and no categorize call is answered by it.
C13_OneLabelNone ==
    Cardinality(Range(tfidf.labels)) <= 1 =>
        /\ \A v \in Restrictions, c \in Cats, p \in TfidfConfs :
              TfidfClassify(tfidf, v, [class |-> c, conf |-> p, raised |-> FALSE]) = NoResult
        /\ resp.op = "categorize" => resp.result.source # "tfidf"

\* two learn calls with the same label, then a categorize call that reaches
\* the text classifier and gets none
C13_Witness ==
    /\ resp.op = "categorize"
    /\ tfidf.labels = <<"c1", "c1">>
    /\ tfidf.examples[1] # tfidf.examples[2]
    /\ "tfidf" \in Range(resp.consulted)
    /\ resp.result = NoResult

NothingTaught == memory = <<>> /\ tfidf.examples = <<>> /\ tfidf.labels = <<>>

\* C14: a learn call updates the memory mapping and appends to the text
\* classifier's examples and labels, whether or not an LLM strategy is
\* configured (the step is determined by the two trainable strategies alone);
\* clear_models empties both; while nothing has been taught since (restarts
\* included), the memory matcher and the text classifier return none for
\* every transaction.
C14_LearnAndClear ==
    [][/\ (Ready /\ resp'.op = "learn") =>
             /\ memory' = MemoryLearn(memory, resp'.d, resp'.c)
             /\ tfidf'.examples = Append(tfidf.examples, resp'.d)
             /\ tfidf'.labels = Append(tfidf.labels, resp'.c)
             /\ llm_enabled' = llm_enabled
       /\ (Ready /\ resp'.op = "clear_models") => NothingTaught'
       /\ (Ready /\ resp'.op # "learn" /\ NothingTaught) => NothingTaught'
       /\ NothingTaught' =>
             \A d \in Descs, v \in Restrictions, c \in Cats, p \in TfidfConfs :
                /\ MemoryClassify(memory', d, v) = NoResult
                /\ TfidfClassify(tfidf', v, [class |-> c, conf |-> p, raised |-> FALSE]) = NoResult]_vars

\* with an LLM strategy configured: a clear (only clear_models writes files
\* without examples), a restart on the cleared files, then a categorize call
\* that gets none
C14_Witness ==
    /\ llm_enabled
    /\ resp.op = "categorize"
    /\ clears = 2
    /\ disk.memory_json = OkFile(<<>>)
    /\ disk.tfidf_pkl = OkFile(<<<<>>, <<>>>>)
    /\ NothingTaught
    /\ resp.result = NoResult

-----------------------------------------------------------------------------
(* Claims on the memory matcher alone (SpecMemory) *)

\* C12: when the exact lookup gives no answer, MemoryMatcher.classify returns
\* a memory_fuzzy result iff the best score over the stored keys (of the first
\* key that reaches it) is >= 90 and that key's category passes the
\* restriction; the result has that key's category and confidence score/100;
\* otherwise, and for an empty memory, it returns none.
C12_FuzzyMatch ==
    resp.op = "memory_classify" =>
        LET V == resp.valid
            passes(c) == ~V.some \/ c \in V.cats
            exact == MemoryHas(memory, resp.d) /\ passes(MemoryGet(memory, resp.d))
            score(i) == token_sort_ratio(resp.d, memory[i].k)
            atLeast(i, j) == score(i).num * score(j).den >= score(j).num * score(i).den
            isBest(i) == /\ \A j \in 1..Len(memory) : atLeast(i, j)
                         /\ \A j \in 1..(i - 1) : ~atLeast(j, i)
        IN /\ memory = <<>> => resp.result = NoResult
           /\ (memory # <<>> /\ ~exact) =>
                 \E b \in 1..Len(memory) :
                    /\ isBest(b)
                    /\ IF score(b).num >= 90 * score(b).den /\ passes(memory[b].v)
                       THEN resp.result =
                               [category |-> memory[b].v,
                                confidence |-> (10 * score(b).num) \div score(b).den,
                                source |-> "memory_fuzzy"]
                       ELSE resp.result = NoResult

\* a best score of exactly 90 gives a fuzzy result of confidence 0.9
C12_Witness ==
    /\ resp.op = "memory_classify"
    /\ resp.result.source = "memory_fuzzy"
    /\ resp.result.confidence = 900
    /\ Len(memory) = 2

-----------------------------------------------------------------------------
(* Claims on the category cache (SpecCache) *)

\* caller i makes its call in this step
Calls(i) ==
    /\ Ready
    /\ fc.call[i].pc = "idle"
    /\ fc'.call[i].pc # "idle" \/ (resp'.op = "get_categories" /\ resp'.caller = i)

\* the fetch of caller i ends in this step, successfully or not
FetchSucceeds(i) ==
    /\ Ready
    /\ fc.call[i].pc = "fetching"
    /\ fc'.call[i].pc = "idle"
    /\ fc'.last_ok.fetch = fc.call[i].fetched

FetchFails(i) ==
    /\ Ready
    /\ fc.call[i].pc = "fetching"
    /\ fc'.call[i].pc = "idle"
    /\ fc'.last_ok.fetch # fc.call[i].fetched

\* the list of the last successful fetch
LastList == [fetch |-> fc.last_ok.fetch, epoch |-> fc.last_ok.epoch]

\* C15: with a TTL t > 0 and no call in progress, no refresh() since the last
\* successful fetch was issued: a call made less than t after that fetch
\* succeeded returns its list and issues no fetch; a call made t or more after
\* it issues a new fetch, and a fetch that succeeds returns its own (new) list.
C15_TtlExpiry ==
    [][\A i \in Callers :
          /\ (/\ Calls(i)
              /\ fc.configured /\ fc.ttl > 0 /\ ~Locked(fc)
              /\ fc.last_ok.fetch > 0 /\ fc.last_ok.epoch = fc.refreshes) =>
                 IF fc.now < fc.last_ok.at + fc.ttl
                 THEN /\ resp'.op = "get_categories"
                      /\ resp'.result = LastList
                      /\ fc'.fetches = fc.fetches
                 ELSE /\ resp' = NoResp
                      /\ fc'.fetches = fc.fetches + 1
                      /\ fc'.call[i].pc = "fetching"
          /\ FetchSucceeds(i) =>
                 /\ resp'.result.fetch = fc.call[i].fetched
                 /\ resp'.result.fetch > fc.last_ok.fetch]_vars

\* the first fetch was cached at time 0 with a TTL of 1; a call made at time 1
\* has issued the second fetch
C15_Witness ==
    \E i \in Callers :
        /\ fc.call[i].pc = "fetching"
        /\ fc.call[i].fetched = 2
        /\ fc.call[i].at = 1
        /\ fc.ttl = 1
        /\ fc.refreshes = 0
        /\ fc.cache.fetch = 1
        /\ fc.last_ok = [fetch |-> 1, at |-> 0, epoch |-> 0]

\* C16: when a fetch fails while an (expired) entry is cached, the call
\* returns the cached list, which is the last successfully fetched one, not
\* the empty list; the entry and its expiry are unchanged and the entry is
\* still expired, so the next call fetches again.
C16_StaleFallback ==
    [][\A i \in Callers :
          (FetchFails(i) /\ fc.cache # NoList /\ fc.ttl > 0) =>
             /\ resp'.op = "get_categories"
             /\ resp'.result = fc.cache
             /\ resp'.result = LastList
             /\ resp'.result # EmptyList
             /\ fc'.cache = fc.cache
             /\ fc'.expires_at = fc.expires_at
             /\ fc'.now >= fc'.expires_at]_vars

\* the second fetch failed and its call returned the list of the first
C16_Witness ==
    /\ resp.op = "get_categories"
    /\ resp.fetched = 2
    /\ resp.result.fetch = 1
    /\ fc.cache.fetch = 1
    /\ fc.refreshes = 0
    /\ fc.fetches = 2

\* the callers whose fetch is in flight
Fetchers(c) == {j \in Callers : c.call[j].pc = "fetching"}

\* caller i arrived while a fetch was in flight, that fetch has succeeded and
\* is the last one that did, and refresh() has not been called since i arrived
ArrivedDuringLastOk(i) ==
    /\ fc.call[i].during > 0
    /\ fc.last_ok.fetch = fc.call[i].during
    /\ fc.call[i].epoch = fc.refreshes
    /\ fc.ttl > 0

\* C17 as stated: at most one fetch is in flight, and no caller that arrived
\* while a fetch that succeeded was in flight issues a fetch of its own.
C17_WaitersNeverFetch ==
    /\ Cardinality(Fetchers(fc)) <= 1
    /\ \A i \in Callers : ~(fc.call[i].pc = "fetching" /\ ArrivedDuringLastOk(i))

\* C17: at most one fetch is in flight at any time; a caller that arrived
\* while a fetch that succeeded was in flight, and that gets the lock less than
\* the TTL after that fetch was cached, is served that fetch's result without
\* issuing its own; one that gets the lock later issues its own fetch.
C17_OneFetchInFlight ==
    [][/\ Cardinality(Fetchers(fc')) <= 1
       /\ \A i \in Callers :
             (Ready /\ fc.call[i].pc = "woken" /\ fc'.call[i].pc # "woken"
                /\ ArrivedDuringLastOk(i)) =>
                IF fc.now < fc.last_ok.at + fc.ttl
                THEN /\ resp'.op = "get_categories"
                     /\ resp'.caller = i
                     /\ resp'.result = LastList
                     /\ resp'.fetched = 0
                     /\ fc'.fetches = fc.fetches
                ELSE /\ fc'.call[i].pc = "fetching"
                     /\ fc'.fetches = fc.fetches + 1]_vars

\* two callers on an empty cache, one fetch: the one that waited is served
\* the list of the fetch that was in flight when it arrived
C17_Witness ==
    /\ resp.op = "get_categories"
    /\ resp.during = 1
    /\ resp.fetched = 0
    /\ resp.result = [fetch |-> 1, epoch |-> 0]
    /\ fc.fetches = 1
    /\ fc.refreshes = 0
    /\ \A i \in Callers : fc.call[i].pc = "idle"

\* C18: a get_categories() call never returns a list whose fetch was issued
\* before a refresh() that preceded the start of the call.
C18_RefreshForcesRefetch ==
    (resp.op = "get_categories" /\ resp.result.fetch > 0) =>
        resp.result.epoch >= resp.epoch

-----------------------------------------------------------------------------
(* Claims on the call sites of the auto-approval (SpecCascade) *)

\* the bodies of the PUT requests of a sequence of writes
Payloads(writes) == [k \in DOMAIN writes |-> transaction_payload(writes[k])]

\* C19: for the same threshold, prediction, existing tags and configured
\* auto-approval tags, the listing / categorize-stream call site and the
\* webhook call site reach the same decision, teach the same and send the
\* same ledger write: same transaction, same category, same tag payload.
C19_SitesAgree ==
    \A d \in Descs, p \in Predictions, tags \in ExistingTagChoices,
       thr \in Thresholds, auto \in AutoTagChoices, ok \in BOOLEAN :
        LET l == predict_for_snapshot_approval(memory, tfidf, disk, "1", d, p, tags,
                                               thr, auto, ok)
            w == webhook_approval(memory, tfidf, disk, "1", d, p, tags, thr, auto, ok)
        IN /\ l.success = w.success
           /\ l.learns = w.learns
           /\ Len(l.writes) = Len(w.writes)
           /\ Payloads(l.writes) = Payloads(w.writes)

-----------------------------------------------------------------------------
(* Claims on train_bulk (Spec) *)

\* the learn calls due for the transactions txs, in order, seen being the ids
\* trained before: one for each transaction that has a category and whose id,
\* if it has one, was not trained before
RECURSIVE DueLearns(_, _)
DueLearns(txs, seen) ==
    IF txs = <<>> THEN <<>>
    ELSE LET t == Head(txs)
         IN IF t.id # None /\ t.id \in seen THEN DueLearns(Tail(txs), seen)
            ELSE IF t.category_name = None THEN DueLearns(Tail(txs), seen)
            ELSE <<[d |-> t.description, c |-> t.category_name]>>
                 \o DueLearns(Tail(txs), IF t.id # None THEN seen \cup {t.id} ELSE seen)

-----------------------------------------------------------------------------
(* Claims on yield_transactions (SpecPages) *)

\* txs is ordered by (created_at, id) and holds what page holds
SortedPermutation(txs, page) ==
    /\ Len(txs) = Len(page)
    /\ \A t \in Range(page) : Cardinality({k \in 1..Len(txs) : txs[k] = t})
                              = Cardinality({k \in 1..Len(page) : page[k] = t})
    /\ \A k \in 1..(Len(txs) - 1) : SortKeyLeq(txs[k], txs[k + 1])

\* C21: the requests ask for pages 1, 2, ... in increasing order, a page again
\* only as the one unsorted retry of a sorted request, and never sorted after
\* an unsorted request; the k-th yield is page k of the server, non-empty,
\* with the meta; no page is asked for after a page that reached total_pages
\* or was not yielded; the iteration ends at the last page, at an empty page
\* or at a failed fetch and at nothing else (but a missing configuration).
C21_PagesInOrder ==
    LET rq == pg.requests
        ys == pg.yields
    IN /\ rq # <<>> => rq[1].page = 1 /\ rq[1].sort
       /\ \A k \in 1..(Len(rq) - 1) :
             /\ rq[k + 1].page = rq[k].page \/ rq[k + 1].page = rq[k].page + 1
             /\ rq[k + 1].page = rq[k].page => rq[k].sort /\ ~rq[k + 1].sort
             /\ ~rq[k].sort => ~rq[k + 1].sort
             /\ rq[k + 1].page = rq[k].page + 1 =>
                   /\ Len(ys) >= rq[k].page
                   /\ rq[k].page < TotalPages(pg.meta)
       /\ \A k \in 1..Len(ys) :
             /\ ys[k].page = k
             /\ k <= Len(ledger) /\ ledger[k] # <<>>
             /\ SortedPermutation(ys[k].txs, ledger[k])
             /\ ys[k].meta = pg.meta
       /\ pg.pc = "yielded" => rq # <<>> /\ Len(ys) = rq[Len(rq)].page
       /\ pg.pc = "ended" =>
             \/ pg.why = "unconfigured" /\ ~fc.configured /\ rq = <<>>
             \/ pg.why = "last_page" /\ Len(ys) >= TotalPages(pg.meta)
                   /\ Len(ys) = rq[Len(rq)].page
             \/ pg.why = "empty" /\ Len(ys) = rq[Len(rq)].page - 1
                   /\ (Len(ys) < Len(ledger) => ledger[Len(ys) + 1] = <<>>)
             \/ pg.why = "failed" /\ Len(ys) = rq[Len(rq)].page - 1

\* a sorted request of page 1 was rejected, the page was asked for again
\* unsorted and yielded in (created_at, id) order, page 2 was asked for
\* unsorted, and the iteration ended after page 2, the last
C21_Witness ==
    /\ pg.pc = "ended" /\ pg.why = "last_page"
    /\ pg.requests = <<[page |-> 1, sort |-> TRUE], [page |-> 1, sort |-> FALSE],
                       [page |-> 2, sort |-> FALSE]>>
    /\ Len(pg.yields) = 2
    /\ pg.yields[1].txs = <<itC, itA, itB>>
    /\ Len(ledger) = 2

-----------------------------------------------------------------------------
(* Claims on failures inside the strategies (SpecCascade) *)

\* C22: categorize never propagates the failure of a strategy: a failed
\* prediction of the text classifier and a failed or unreadable answer of the
\* LLM are each "no result" of that strategy, after which the next strategy
\* is consulted (or none is returned); the call returns a result or none.
C22_FailuresAbsorbed ==
    resp.op = "categorize" =>
        /\ resp.result = NoResult \/ resp.result.source \in {"memory_exact", "memory_fuzzy", "tfidf", "llm"}
        /\ (tfidf.is_fitted /\ resp.pred.raised) =>
              /\ AnswerOf("tfidf") = NoResult
              /\ AnswerOf("memory") = NoResult =>
                    /\ resp.consulted = CascadeOrder
                    /\ resp.result = (IF llm_enabled THEN AnswerOf("llm") ELSE NoResult)
        /\ resp.out = None =>
              /\ AnswerOf("llm") = NoResult
              /\ "llm" \in Range(resp.consulted) =>
                    resp.consulted = CascadeOrder /\ resp.result = NoResult

\* the prediction of the fitted text classifier failed, memory had nothing,
\* and the LLM, consulted next, gave the answer
C22_Witness ==
    /\ resp.op = "categorize"
    /\ tfidf.is_fitted /\ resp.pred.raised
    /\ resp.consulted = <<"memory", "tfidf", "llm">>
    /\ resp.result.source = "llm"

\* C23: when the memory file or the example file is damaged at the start of
\* the process, the strategy that loads it starts empty and untrained, and
\* the construction of the cascade does not fail.
C23_DamagedFilesNotFatal ==
    resp.op = "restart" =>
        /\ ~resp.raised
        /\ disk.memory_json.state \in DamagedStates => memory = <<>>
        /\ disk.tfidf_pkl.state \in DamagedStates => tfidf = EmptyTfidf

-----------------------------------------------------------------------------
(* Claims on the confidence of a result (SpecCascade) *)

\* C24 as stated: every result of every strategy has its confidence in [0,1];
\* memory_exact has 1.0, memory_fuzzy has score/100 with 0 < score/100 < 1,
\* llm has 0.9.
C24_FuzzyBelowOne ==
    resp.op = "categorize" =>
        \A name \in {"memory", "tfidf", "llm"} :
            LET a == AnswerOf(name)
            IN a # NoResult =>
                /\ a.confidence \in 0..1000
                /\ a.source = "memory_exact" => a.confidence = 1000
                /\ a.source = "memory_fuzzy" => a.confidence > 0 /\ a.confidence < 1000
                /\ a.source = "llm" => a.confidence = LlmConfidence

\* C24: every result of every strategy has its confidence in [0,1];
\* memory_exact has 1.0, llm has 0.9, and memory_fuzzy has score/100, which is
\* at least the threshold 0.9 and at most 1, and is 1 exactly when the
\* description holds the tokens of the matched stored description (in another
\* order or spacing).
C24_ConfidenceRange ==
    resp.op = "categorize" =>
        \A name \in {"memory", "tfidf", "llm"} :
            LET a == AnswerOf(name)
            IN a # NoResult =>
                /\ a.confidence \in 0..1000
                /\ a.source = "memory_exact" => a.confidence = 1000
                /\ a.source = "llm" => a.confidence = LlmConfidence
                /\ a.source = "memory_fuzzy" =>
                      LET key == memory[extractOne(resp.d, MemoryKeys(memory))].k
                      IN /\ a.confidence >= 10 * MemoryThreshold
                         /\ a.confidence <= 1000
                         /\ a.confidence = 1000 <=> TokenSort(resp.d) = TokenSort(key)

\* "b a" is asked for when "a b" is what was stored: a fuzzy result of
\* confidence 1.0
C24_Witness ==
    /\ resp.op = "categorize"
    /\ resp.result.source = "memory_fuzzy"
    /\ resp.result.confidence = 1000
    /\ ~MemoryHas(memory, resp.d)

-----------------------------------------------------------------------------
(* Claims on pausing a run (Spec) *)

\* C25: when a pause request is accepted while a page of a stream() run is
\* being processed, or before a page that arrives later, the run processes
\* the page in flight to its end and no page after it, and its terminal
\* event is paused.
C25_PauseStopsTheRun ==
    \A r \in Runs :
        (/\ run[r].kind = "stream" /\ run[r].pc = "done" /\ run[r].paused_run
         /\ run[r].pause_in_page \/ run[r].yielded > run[r].pause_pages)
            => /\ EndsWith(r, "paused")
               /\ Len(run[r].pages_done)
                     = run[r].pause_pages + (IF run[r].pause_in_page THEN 1 ELSE 0)

-----------------------------------------------------------------------------
(* Claims on the end of a run (Spec) *)

\* C26: a stream() run emits complete only when every page of the ledger was
\* fetched and processed in this run.
C26_CompleteMeansExhausted ==
    \A r \in Runs :
        (run[r].kind = "stream" /\ EndsWith(r, "complete")) => run[r].pages_done = ledger

-----------------------------------------------------------------------------
(* Claims on _process_training_page (Spec) *)

\* run r handles the next transaction of its page in this step
HandlesTx(r) ==
    /\ run[r].pc \in {"page", "orphan"}
    /\ run[r].i <= Len(run[r].page_txs)
    /\ run'[r].i = run[r].i + 1 \/ run'[r].pc \in {"raised", "closed"}

\* C27: a transaction of a page is handled by exactly one branch, tested in
\* this order: its id is in SeenIdSet (counted as duplicate, not taught), it
\* has no category (counted as uncategorized, not taught, not recorded), or
\* it is taught; its id is added to SeenIdSet when, and only when, its learn
\* call has returned, and SeenIdSet gets no id in any other way.
C27_PageBranches ==
    [][/\ \A r \in Runs : HandlesTx(r) =>
             LET rr == run[r]
                 t == rr.page_txs[rr.i]
                 dup == t.id # None /\ t.id \in seen_ids
                 uncat == t.category_name = None
                 counts(a, b, c) ==
                     /\ run'[r].page_skipped_duplicate = rr.page_skipped_duplicate + a
                     /\ run'[r].page_skipped_uncategorized = rr.page_skipped_uncategorized + b
                     /\ run'[r].page_trained = rr.page_trained + c
             IN /\ dup => counts(1, 0, 0) /\ UNCHANGED <<cascadeVars, seen_ids>>
                /\ (~dup /\ uncat) => counts(0, 1, 0) /\ UNCHANGED <<cascadeVars, seen_ids>>
                /\ (~dup /\ ~uncat) =>
                      /\ tfidf'.examples = Append(tfidf.examples, t.description)
                      /\ tfidf'.labels = Append(tfidf.labels, t.category_name)
                      /\ IF run'[r].i = rr.i + 1
                         THEN /\ counts(0, 0, 1)
                              /\ seen_ids' = seen_ids \cup (IF t.id # None THEN {t.id} ELSE {})
                         ELSE counts(0, 0, 0) /\ seen_ids' = seen_ids
       /\ \A id \in seen_ids' \ seen_ids :
             \E r \in Runs :
                /\ HandlesTx(r) /\ run'[r].i = run[r].i + 1
                /\ run[r].page_txs[run[r].i].id = id
                /\ run[r].page_txs[run[r].i].category_name # None]_vars

\* a page of an uncategorized transaction and a categorized one without an
\* id has been processed: one skipped, one taught, no id recorded
C27_Witness ==
    \E r \in Runs :
        /\ run[r].pc = "page" /\ run[r].i > Len(run[r].page_txs)
        /\ run[r].page_txs = <<txU, txN>>
        /\ run[r].page_skipped_uncategorized = 1
        /\ run[r].page_trained = 1
        /\ seen_ids = {}

-----------------------------------------------------------------------------
(* Claims on TfidfClassifier.learn (SpecPersist) *)

\* C28: the examples and the labels of the text classifier have equal length
\* in every state, a learn call appends one to each; the classifier is fitted
\* iff its labels hold at least two distinct ones; and a learn call that
\* leaves at least two distinct labels persists the two sequences.
C28_FittedIffTwoLabels ==
    [][/\ Len(tfidf.examples) = Len(tfidf.labels)
       /\ tfidf.is_fitted <=> Cardinality(Range(tfidf.labels)) >= 2
       /\ (Ready /\ resp'.op = "learn") =>
             /\ tfidf'.examples = Append(tfidf.examples, resp'.d)
             /\ tfidf'.labels = Append(tfidf.labels, resp'.c)
             /\ Cardinality(Range(tfidf'.labels)) >= 2 =>
                   /\ tfidf'.is_fitted
                   /\ disk'.tfidf_pkl = OkFile(<<tfidf'.examples, tfidf'.labels>>)]_vars

-----------------------------------------------------------------------------
(* Claims on predict_for_snapshot (SpecSnapshot) *)

\* C29: predict_for_snapshot has exactly three outcomes: (a) the snapshot has
\* a category: no strategy is consulted, nothing is written or taught, and
\* (none, that category, false) is returned; (b) auto-approved: one ledger
\* write succeeded, one learn call followed, and (none, the predicted
\* category, true) is returned; (c) otherwise the prediction (or none) is
\* returned with no category and false, and the cascade is not taught.
\* Auto-approval is attempted only with a prediction and a transaction id.
C29_ThreeOutcomes ==
    [][(Ready /\ resp'.op = "predict_for_snapshot") =>
          LET s == resp'.snapshot
              a == /\ s.category_name # None
                   /\ resp'.consulted = <<>> /\ resp'.writes = <<>> /\ resp'.learns = <<>>
                   /\ UNCHANGED cascadeVars
                   /\ resp'.prediction = NoResult /\ resp'.existing_cat = s.category_name
                   /\ ~resp'.auto_approved
              b == /\ s.category_name = None
                   /\ Len(resp'.writes) = 1 /\ resp'.writes[1].ok
                   /\ Len(resp'.learns) = 1
                   /\ resp'.learns[1] = [d |-> s.description, c |-> resp'.writes[1].category_name]
                   /\ resp'.prediction = NoResult
                   /\ resp'.existing_cat = resp'.writes[1].category_name
                   /\ resp'.auto_approved
              c == /\ s.category_name = None
                   /\ resp'.learns = <<>> /\ UNCHANGED cascadeVars
                   /\ \A k \in 1..Len(resp'.writes) : ~resp'.writes[k].ok
                   /\ resp'.existing_cat = None /\ ~resp'.auto_approved
          IN /\ ~resp'.raised
             /\ a \/ b \/ c
             /\ resp'.attempted => s.transaction_id # None /\ resp'.consulted # <<>>
             /\ resp'.writes # <<>> => resp'.attempted]_vars

-----------------------------------------------------------------------------
(* Claims on the tags of an auto-approval write (SpecTags) *)

\* where x is first seen in s
FirstAt(s, x) == CHOOSE i \in 1..Len(s) : s[i] = x /\ \A j \in 1..(i - 1) : s[j] # x

\* C30: with auto-approval tags configured, the tags of the write are the
\* existing tags followed by the auto-approval tags without the empty ones
\* and without repetitions, in the order in which they are first seen, and
\* merging them again with the auto-approval tags changes nothing; with none
\* configured, the write carries the existing tags when
\* include_existing_when_no_auto is set and no tags otherwise.
C30_TagPayload ==
    resp.op = "apply_auto_approval" =>
        LET all == resp.existing_tags \o resp.auto_tags
            payload == resp.writes[1].tags
            m == payload.tags
        IN /\ Len(resp.writes) = 1
           /\ resp.auto_tags # <<>> =>
                 /\ payload.some
                 /\ Range(m) = Range(all) \ {""}
                 /\ \A i, j \in 1..Len(m) :
                       i < j => m[i] # m[j] /\ FirstAt(all, m[i]) < FirstAt(all, m[j])
                 /\ merge_tags(m, resp.auto_tags) = m
           /\ resp.auto_tags = <<>> =>
                 payload = (IF resp.include_existing_when_no_auto
                            THEN SomeTags(resp.existing_tags) ELSE NoTags)

\* an empty tag and a tag that is also an auto-approval tag among the
\* existing ones
C30_Witness ==
    /\ resp.op = "apply_auto_approval"
    /\ resp.existing_tags = <<"", "auto">>
    /\ resp.auto_tags = <<"auto", "t2">>
    /\ resp.writes[1].tags = SomeTags(<<"auto", "t2">>)

-----------------------------------------------------------------------------
(* C31: deduplication under overlapping runs *)

CountOf(s, x) == Cardinality({i \in 1..Len(s) : s[i] = x})

\* C31: as long as SeenIdSet has not been cleared, no transaction with an
\* external id is taught twice, whatever the interleaving of the stream() and
\* train_bulk() runs at work on the ledger: over all runs, each id is the id
\* of at most one learn call.
C31_TaughtAtMostOnce ==
    clears = 0 =>
        \A id \in Ids : CountOf(run[1].taught, id) + CountOf(run[2].taught, id) <= 1

-----------------------------------------------------------------------------
(* C32: the active flag under overlapping stream() runs *)

\* C32: with nothing cleared, the active flag is true at every moment at
\* which a stream() run is in progress (it has yielded its start event and
\* has not left its finally clause), also when the runs overlap; a pause
\* request is accepted exactly when the flag is true.
C32_ActiveWhileAnyStream ==
    clears = 0 =>
        ((\E r \in Runs : run[r].kind = "stream" /\ InProgress(r)) => active)

-----------------------------------------------------------------------------
(* C33: the two trainable strategies under interleaved learn and clear_models *)

\* C33: once every run has ended and every request is answered, the memory
\* mapping and the text classifier agree: a description is a key of the
\* mapping iff it is one of the classifier's examples, and there are as many
\* labels as examples.
C33_StrategiesAgree ==
    (Ready /\ \A r \in Runs : ~InProgress(r)) =>
        /\ \A d \in Descs : MemoryHas(memory, d) <=> d \in Range(tfidf.examples)
        /\ Len(tfidf.examples) = Len(tfidf.labels)

-----------------------------------------------------------------------------
(* C34: the counters of a run *)

\* the run's counters account for every transaction fetched, and ev reports them
Conserved(rr, ev, fetched) ==
    /\ rr.total_fetched = rr.trained_count + rr.skipped_count + rr.skipped_duplicate
    /\ ev.trained = rr.trained_count
    /\ ev.skipped = rr.skipped_count
    /\ fetched = rr.total_fetched
    /\ ev.trained + ev.skipped <= fetched
    /\ (ev.trained + ev.skipped = fetched) <=> (rr.skipped_duplicate = 0)

\* C34: whenever stream() emits a processing, paused or complete event and
\* whenever train_bulk() returns, the reported counters are the run's and
\* fetched = trained + skipped-uncategorized + skipped-duplicate over the
\* pages processed so far, so trained + skipped <= fetched, with equality
\* exactly when no duplicate was skipped.
C34_CountersConserved ==
    [][\A r \in Runs :
          /\ (run'[r].kind = "stream" /\ Len(run'[r].events) > Len(run[r].events)
                  /\ LastEvent(r)'.stage # "start")
                => Conserved(run'[r], LastEvent(r)',
                             IF LastEvent(r)'.stage = "complete"
                             THEN LastEvent(r)'.total_fetched ELSE LastEvent(r)'.fetched)
          /\ (run'[r].kind = "bulk" /\ run[r].pc # "done" /\ run'[r].pc = "done")
                => /\ run'[r].result.status = "success"
                   /\ run'[r].result.total = run'[r].result.fetched
                   /\ Conserved(run'[r], run'[r].result, run'[r].result.fetched)]_vars

\* a train_bulk() run has returned after it trained a transaction, skipped
\* one without category and skipped a duplicate
C34_Witness ==
    \E r \in Runs :
          /\ run[r].kind = "bulk" /\ run[r].pc = "done"
          /\ run[r].result.status = "success"
          /\ run[r].result.trained > 0 /\ run[r].result.skipped > 0
          /\ run[r].skipped_duplicate > 0
          /\ run[r].result.fetched =
                 run[r].result.trained + run[r].result.skipped + run[r].skipped_duplicate

-----------------------------------------------------------------------------
(* C35: the persistence round trip *)

\* C35: a restart of the process restores what the strategies held before
\* it: the same memory mapping and the same example and label sequences.
C35_RoundTrip ==
    [][(resp.op = None /\ resp'.op = "restart")
          => /\ memory' = memory
             /\ tfidf'.examples = tfidf.examples
             /\ tfidf'.labels = tfidf.labels]_vars

-----------------------------------------------------------------------------
(* C36: an approved prediction is recalled *)

ApprovalOps == {"apply_auto_approval", "evaluate_auto_approval"}

\* C36: a successful auto-approval of category C for a description stores
\* the pair in the memory mapping, whatever the source and confidence of the
\* prediction; the pair stays until a later approval of that description or a
\* clearing; and while it is there a categorize call for the description
\* whose restriction permits C returns C with confidence 1.0 and source
\* memory_exact after consulting the memory matcher alone.
C36_ApprovedRecall ==
    [][/\ (resp.op = None /\ resp'.op \in ApprovalOps /\ resp'.success)
            => /\ MemoryHas(memory', resp'.d)
               /\ MemoryGet(memory', resp'.d) = resp'.prediction.category
       /\ \A d \in Descs :
            (/\ MemoryHas(memory, d)
             /\ resp'.op # "clear_models"
             /\ ~(resp'.op \in ApprovalOps /\ resp'.d = d /\ resp'.success))
            => /\ MemoryHas(memory', d)
               /\ MemoryGet(memory', d) = MemoryGet(memory, d)
       /\ (/\ resp.op = None /\ resp'.op = "categorize"
           /\ MemoryHas(memory, resp'.d)
           /\ is_valid(resp'.valid, MemoryGet(memory, resp'.d)))
            => /\ resp'.result = [category |-> MemoryGet(memory, resp'.d),
                                  confidence |-> 1000, source |-> "memory_exact"]
               /\ resp'.consulted = <<"memory">>]_vars

\* an approved description is categorized under a restriction, with the
\* text classifier fitted and the LLM enabled, and the memory answers alone
C36_Witness ==
    /\ resp.op = "categorize"
    /\ llm_enabled /\ tfidf.is_fitted
    /\ resp.valid.some /\ resp.out # None
    /\ MemoryHas(memory, resp.d)
    /\ resp.result.source = "memory_exact"
    /\ resp.result.category = MemoryGet(memory, resp.d)
    /\ resp.consulted = <<"memory">>

-----------------------------------------------------------------------------
(* C37: no category list, no restriction *)

\* C37: at every prediction call site, when the ledger gives no category
\* (an empty list, or a fetch that failed) the request does not fail and the
\* cascade is consulted with no restriction.
C37_NoRestrictionWhenNoList ==
    (resp.op = "predict_at" /\ resp.raw_cats = <<>>)
        => /\ ~resp.raised
           /\ resp.valid = NoRestriction
           /\ resp.consulted # <<>>

-----------------------------------------------------------------------------
(* C38: the manual learn operation *)

-----------------------------------------------------------------------------
(* C39: train_bulk() and the manager's flags *)

\* the step is one of run r, a train_bulk() run
BulkStep(r) == run'[r].kind = "bulk" /\ run'[r] # run[r] /\ run[r].kind \in {"none", "bulk"}

\* C39: a step of a train_bulk() run changes neither TrainingRunStatus nor
\* the active flag nor the pause flag (only the cascade and SeenIdSet), and
\* the run never drops a page: every page the ledger has yielded to it is
\* processed or being processed, whatever the pause flag, so a run that
\* returns has processed every page yielded.
C39_BulkLeavesFlags ==
    [][\A r \in Runs :
          /\ (BulkStep(r) /\ resp' = resp /\ ~Ended(r))
                => /\ status' = status
                   /\ active' = active
                   /\ pause_event' = pause_event
          /\ (run'[r].kind = "bulk" /\ run'[r].pc \in {"fetch", "page", "done"}
                  /\ (run'[r].pc = "done" => run'[r].result.status = "success"))
                => run'[r].yielded = Len(run'[r].pages_done)
                                       + (IF run'[r].pc = "page" THEN 1 ELSE 0)]_vars

\* a train_bulk() run has returned with the pause flag set, after it
\* processed both pages of the ledger
C39_Witness ==
    \E r \in Runs :
        /\ run[r].kind = "bulk" /\ run[r].pc = "done"
        /\ run[r].result.status = "success"
        /\ pause_event /\ active
        /\ Len(ledger) = 2
        /\ run[r].pages_done = ledger

-----------------------------------------------------------------------------
(* C40: the flags at the end of a stream() run *)

\* the generator of the run has finished or has been closed
StreamOver(rr) == rr.kind = "stream" /\ rr.pc \in {"done", "raised", "closed", "orphan"}

\* C40: at the moment a stream() run ends (after its terminal event, by an
\* exception, or closed by its consumer) the active flag is false, the
\* status's active field is false and the pause flag is clear.
C40_EndedRunLeavesIdle ==
    [][\A r \in Runs :
          (~StreamOver(run[r]) /\ StreamOver(run'[r]))
              => (~active' /\ ~pause_event' /\ ~status'.active)]_vars

====
